---- MODULE Spec2Model ----
(***************************************************************************)
(* A model of the TemplateEngine class of src/src/index.ts.                *)
(*                                                                         *)
(* Text is a sequence of one-character strings.  A JavaScript value is a   *)
(* tagged record (field t).  render is the operator Render: the ten        *)
(* regular-expression passes of the source, each a left-to-right           *)
(* replace-all over the text the previous pass left.  A render either      *)
(* returns text or throws; RenderResult carries both (err = "" is a        *)
(* normal return).                                                         *)
(***************************************************************************)
EXTENDS Integers, Sequences, FiniteSets, TLC

VARIABLES
    options,    \* this.options
    tplCache,   \* this.tplCache: defined or not, and the Map's entries in insertion order
    partials,   \* this.partials: name -> template text
    nextId,     \* the identity the next renderer closure created by compile gets
    held,       \* the compile calls made so far, in order, with the renderer each returned
    gone,       \* the renderers whose cache entry has been deleted or cleared
    regLog,     \* the registerPartial calls made so far, in order
    last,       \* the operation just performed, its arguments and its outcome
    steps       \* the number of operations performed that change the engine

vars == <<options, tplCache, partials, nextId, held, gone, regLog, last, steps>>

(***************************************************************************)
(* Characters and text                                                     *)
(***************************************************************************)
LowerLetters ==
    <<"a","b","c","d","e","f","g","h","i","j","k","l","m",
      "n","o","p","q","r","s","t","u","v","w","x","y","z">>

UpperLetters ==
    <<"A","B","C","D","E","F","G","H","I","J","K","L","M",
      "N","O","P","Q","R","S","T","U","V","W","X","Y","Z">>

Digits == <<"0","1","2","3","4","5","6","7","8","9">>

Range(f) == {f[i] : i \in DOMAIN f}

\* \s of the regular expressions
IsSpace(c) == c \in {" ", "\t", "\n", "\r"}

\* [ \t] of the regular expressions
IsBlank(c) == c \in {" ", "\t"}

\* \w of the regular expressions
IsWord(c) == c \in Range(LowerLetters) \cup Range(UpperLetters) \cup Range(Digits) \cup {"_"}

\* [\w.] of RE_SECTION, RE_INVERTED and RE_PARTIAL_WITH_INDENT
IsNameChar(c) == IsWord(c) \/ c = "."

IsDigit(c) == c \in Range(Digits)

MinOf(S) == CHOOSE x \in S : \A y \in S : x <= y

MaxOf(S) == CHOOSE x \in S : \A y \in S : x >= y

\* s[i..j], empty when j < i
Sub(s, i, j) == IF j < i THEN <<>> ELSE SubSeq(s, i, j)

From(s, i) == Sub(s, i, Len(s))

\* the literal lit occurs in s at position i
At(s, i, lit) ==
    /\ i >= 1
    /\ i + Len(lit) - 1 <= Len(s)
    /\ \A k \in 1..Len(lit) : s[i + k - 1] = lit[k]

\* the first position >= i where lit occurs, 0 when there is none
Find(s, i, lit) ==
    LET hits == {k \in i..Len(s) : At(s, k, lit)}
    IN  IF hits = {} THEN 0 ELSE MinOf(hits)

\* the first position >= i whose character is not in the class, Len(s)+1 at the end
SkipSpace(s, i) == MinOf({k \in i..(Len(s) + 1) : k = Len(s) + 1 \/ ~IsSpace(s[k])})

SkipBlank(s, i) == MinOf({k \in i..(Len(s) + 1) : k = Len(s) + 1 \/ ~IsBlank(s[k])})

SkipName(s, i) == MinOf({k \in i..(Len(s) + 1) : k = Len(s) + 1 \/ ~IsNameChar(s[k])})

\* [^}]+ : the first position >= i holding "}", Len(s)+1 when there is none
SkipNotClose(s, i) == MinOf({k \in i..(Len(s) + 1) : k = Len(s) + 1 \/ s[k] = "}"})

\* String.prototype.trim
Trim(s) ==
    LET keep == {k \in 1..Len(s) : ~IsSpace(s[k])}
    IN  IF keep = {} THEN <<>> ELSE SubSeq(s, MinOf(keep), MaxOf(keep))

\* String.prototype.split on a one-character separator
RECURSIVE SplitOn(_, _)
SplitOn(s, c) ==
    LET k == Find(s, 1, <<c>>)
    IN  IF k = 0 THEN <<s>> ELSE <<Sub(s, 1, k - 1)>> \o SplitOn(From(s, k + 1), c)

RECURSIVE Concat(_)
Concat(ss) == IF ss = <<>> THEN <<>> ELSE Head(ss) \o Concat(Tail(ss))

\* Array.prototype.join
RECURSIVE JoinWith(_, _)
JoinWith(ss, sep) ==
    IF ss = <<>> THEN <<>>
    ELSE IF Len(ss) = 1 THEN ss[1]
    ELSE ss[1] \o sep \o JoinWith(Tail(ss), sep)

StartsWith(s, lit) == At(s, 1, lit)

EndsWith(s, lit) == Len(s) >= Len(lit) /\ At(s, Len(s) - Len(lit) + 1, lit)

\* String(n) of a non-negative integer
RECURSIVE NatToStr(_)
NatToStr(n) == IF n < 10 THEN <<Digits[n + 1]>> ELSE NatToStr(n \div 10) \o <<Digits[(n % 10) + 1]>>

IntToStr(n) == IF n < 0 THEN <<"-">> \o NatToStr(0 - n) ELSE NatToStr(n)

DigitVal(c) == CHOOSE d \in 0..9 : Digits[d + 1] = c

RECURSIVE StrToNat(_)
StrToNat(s) == IF s = <<>> THEN 0 ELSE 10 * StrToNat(Sub(s, 1, Len(s) - 1)) + DigitVal(s[Len(s)])

AllDigits(s) == s # <<>> /\ \A k \in 1..Len(s) : IsDigit(s[k])

\* String.prototype.replace(/c/g, rep) for a one-character pattern
RECURSIVE ReplaceChar(_, _, _)
ReplaceChar(s, c, rep) ==
    IF s = <<>> THEN <<>>
    ELSE (IF Head(s) = c THEN rep ELSE <<Head(s)>>) \o ReplaceChar(Tail(s), c, rep)

(***************************************************************************)
(* Values                                                                  *)
(***************************************************************************)
Undefined == [t |-> "undefined"]

Null == [t |-> "null"]

Str(s) == [t |-> "string", s |-> s]

Num(n) == [t |-> "number", n |-> n]

Bool(b) == [t |-> "boolean", b |-> b]

Arr(items) == [t |-> "array", items |-> items]

Obj(f) == [t |-> "object", f |-> f]

\* class SafeString: a wrapper marking a value as safe
SafeString(v) == [t |-> "safe", v |-> v]

\* A function-valued context field.  body says what the function does when
\* called: "throw" (its own code throws), "const" (returns v), "wrap"
\* (returns pre + render(text) + post, as the section lambda of the tests),
\* "wrapOwn" (returns pre + render(tpl) + post for a template of its own),
\* "echo" (returns the text it was given).
Lambda(body, v, tpl, pre, post) ==
    [t |-> "function", body |-> body, v |-> v, tpl |-> tpl, pre |-> pre, post |-> post]

IsNullish(v) == v.t \in {"undefined", "null"}

K_this == <<"t","h","i","s">>

K_length == <<"l","e","n","g","t","h">>

T_true == <<"t","r","u","e">>

T_false == <<"f","a","l","s","e">>

T_undefined == <<"u","n","d","e","f","i","n","e","d">>

T_null == <<"n","u","l","l">>

T_objectObject == <<"[","o","b","j","e","c","t"," ","O","b","j","e","c","t","]">>

\* the source text of a function value, which String(fn) returns; the model
\* keeps one fixed text for it
T_functionSource == <<"(",")","=",">","{","}">>

\* String(v)
RECURSIVE ToStr(_)
ToStr(v) ==
    CASE v.t = "string" -> v.s
      [] v.t = "number" -> IntToStr(v.n)
      [] v.t = "boolean" -> (IF v.b THEN T_true ELSE T_false)
      [] v.t = "undefined" -> T_undefined
      [] v.t = "null" -> T_null
      [] v.t = "array" ->
            JoinWith([i \in 1..Len(v.items) |->
                        IF IsNullish(v.items[i]) THEN <<>> ELSE ToStr(v.items[i])], <<",">>)
      [] v.t = "object" -> T_objectObject
      [] v.t = "safe" -> ToStr(v.v)
      [] v.t = "function" -> T_functionSource

\* JavaScript truthiness
Truthy(v) ==
    CASE v.t = "string" -> v.s # <<>>
      [] v.t = "number" -> v.n # 0
      [] v.t = "boolean" -> v.b
      [] v.t \in {"undefined", "null"} -> FALSE
      [] OTHER -> TRUE

\* typeof v === "object" for a non-null v
IsObjectLike(v) == v.t \in {"object", "array", "safe"}

\* an array index in canonical decimal form
IsIndexKey(key, n) ==
    /\ AllDigits(key)
    /\ (Len(key) = 1 \/ key[1] # "0")
    /\ StrToNat(key) < n

\* Object.prototype.hasOwnProperty.call(v, key)
HasOwn(v, key) ==
    CASE v.t = "object" -> key \in DOMAIN v.f
      [] v.t = "array" -> key = K_length \/ IsIndexKey(key, Len(v.items))
      [] v.t = "safe" -> key = <<"v">>
      [] OTHER -> FALSE

\* v[key] for an own property
GetOwn(v, key) ==
    CASE v.t = "object" -> v.f[key]
      [] v.t = "array" ->
            (IF key = K_length THEN Num(Len(v.items)) ELSE v.items[StrToNat(key) + 1])
      [] v.t = "safe" -> v.v

\* { ...a, ...b } of two field maps
Merge(f, g) == [k \in (DOMAIN f) \cup (DOMAIN g) |-> IF k \in DOMAIN g THEN g[k] ELSE f[k]]

\* the own enumerable properties an object spread copies
SpreadOf(v) ==
    CASE v.t = "object" -> v.f
      [] v.t = "array" -> [k \in {NatToStr(i - 1) : i \in 1..Len(v.items)} |-> v.items[StrToNat(k) + 1]]
      [] v.t = "safe" -> [k \in {<<"v">>} |-> v.v]
      [] OTHER -> <<>>

\* { ...data, this: x }
WithThis(data, x) == Obj(Merge(data.f, [k \in {K_this} |-> x]))

\* { ...data, ...x, this: x }
Overlay(data, x) == Obj(Merge(Merge(data.f, SpreadOf(x)), [k \in {K_this} |-> x]))

(***************************************************************************)
(* Path lookup                                                             *)
(***************************************************************************)
D_proto == <<"_","_","p","r","o","t","o","_","_">>

D_prototype == <<"p","r","o","t","o","t","y","p","e">>

D_constructor == <<"c","o","n","s","t","r","u","c","t","o","r">>

\* a deny-list that names __proto__ only
isDangerousKey_ProtoOnly(key) == key = D_proto

isDangerousKey(key) == key = D_proto \/ key = D_prototype \/ key = D_constructor

\* the for loop of getValueByPath over the remaining parts
RECURSIVE WalkPath(_, _)
WalkPath(acc, parts) ==
    IF parts = <<>> THEN acc
    ELSE LET key == Trim(Head(parts))
         IN  IF key = <<>> THEN Undefined
             ELSE IF isDangerousKey(key) THEN Undefined
             ELSE IF Truthy(acc) /\ IsObjectLike(acc) /\ HasOwn(acc, key)
                  THEN WalkPath(GetOwn(acc, key), Tail(parts))
                  ELSE Undefined

getValueByPath(obj, path) ==
    IF path = <<".">>
    THEN (IF Truthy(obj) /\ HasOwn(obj, K_this) THEN GetOwn(obj, K_this) ELSE obj)
    ELSE IF path = <<>> THEN Undefined
    ELSE WalkPath(obj, SplitOn(path, "."))

(***************************************************************************)
(* Escaping                                                                *)
(***************************************************************************)
escapeHtml(s) ==
    LET s1 == ReplaceChar(s, "&", <<"&","a","m","p",";">>)
        s2 == ReplaceChar(s1, "<", <<"&","l","t",";">>)
        s3 == ReplaceChar(s2, ">", <<"&","g","t",";">>)
        s4 == ReplaceChar(s3, "\"", <<"&","q","u","o","t",";">>)
    IN  ReplaceChar(s4, "'", <<"&","#","3","9",";">>)

\* the escapeFn of the test "custom escapeFn is used when escapeHtml is true"
escapeBrackets(s) ==
    ReplaceChar(ReplaceChar(s, "<", <<"[","L","T","]">>), ">", <<"[","G","T","]">>)

\* this.options.escapeFn(str): the option holds the name of the function
escapeFn(opts, s) == IF opts.escapeFn = "escapeHtml" THEN escapeHtml(s) ELSE escapeBrackets(s)

(***************************************************************************)
(* Helpers and the filter pipeline                                         *)
(***************************************************************************)
\* the names the constructor registers
BuiltinHelpers ==
    { <<"d","e","f","a","u","l","t">>, <<"j","s","o","n">>, <<"d","a","t","e">>,
      <<"u","p","p","e","r">>, <<"l","o","w","e","r">>,
      <<"c","a","p","i","t","a","l","i","z","e">>, <<"t","r","i","m">>,
      <<"l","e","n","g","t","h">>, <<"j","o","i","n">>, <<"n","u","m","b","e","r">>,
      <<"e","q">>, <<"n","e">>, <<"g","t">>, <<"g","t","e">>, <<"l","t">>, <<"l","t","e">>,
      <<"r","a","w">> }

IndexIn(seq, c) == CHOOSE i \in DOMAIN seq : seq[i] = c

UpperChar(c) == IF c \in Range(LowerLetters) THEN UpperLetters[IndexIn(LowerLetters, c)] ELSE c

LowerChar(c) == IF c \in Range(UpperLetters) THEN LowerLetters[IndexIn(UpperLetters, c)] ELSE c

toUpperCase(s) == [i \in 1..Len(s) |-> UpperChar(s[i])]

toLowerCase(s) == [i \in 1..Len(s) |-> LowerChar(s[i])]

\* String(v ?? "")
StrOrEmpty(v) == IF IsNullish(v) THEN <<>> ELSE ToStr(v)

\* an optionally signed run of digits
IsIntLiteral(s) ==
    LET d == IF s # <<>> /\ s[1] \in {"+", "-"} THEN Tail(s) ELSE s
    IN  AllDigits(d)

IntLiteral(s) ==
    IF s[1] = "-" THEN 0 - StrToNat(Tail(s))
    ELSE IF s[1] = "+" THEN StrToNat(Tail(s))
    ELSE StrToNat(s)

\* Number(v): nan, or the integer n.  Fractions, exponents and hexadecimal
\* text are outside the model's numbers.
RECURSIVE ToNumber(_)
ToNumber(v) ==
    CASE v.t = "number" -> [nan |-> FALSE, n |-> v.n]
      [] v.t = "boolean" -> [nan |-> FALSE, n |-> IF v.b THEN 1 ELSE 0]
      [] v.t = "null" -> [nan |-> FALSE, n |-> 0]
      [] v.t = "undefined" -> [nan |-> TRUE, n |-> 0]
      [] v.t = "string" ->
            (LET s == Trim(v.s)
             IN  IF s = <<>> THEN [nan |-> FALSE, n |-> 0]
                 ELSE IF IsIntLiteral(s) THEN [nan |-> FALSE, n |-> IntLiteral(s)]
                 ELSE [nan |-> TRUE, n |-> 0])
      [] v.t \in {"array", "safe"} -> ToNumber(Str(ToStr(v)))
      [] OTHER -> [nan |-> TRUE, n |-> 0]

\* the cmp closure of the constructor
cmp(a, b) ==
    LET na == ToNumber(a)
        nb == ToNumber(b)
    IN  IF na.nan \/ nb.nan THEN ToStr(a) = ToStr(b) ELSE na.n = nb.n

\* a relational operator on Number(a), Number(b): false when either is NaN
NumRel(a, b, rel) ==
    LET na == ToNumber(a)
        nb == ToNumber(b)
    IN  /\ ~na.nan
        /\ ~nb.nan
        /\ CASE rel = "gt" -> na.n > nb.n
             [] rel = "gte" -> na.n >= nb.n
             [] rel = "lt" -> na.n < nb.n
             [] rel = "lte" -> na.n <= nb.n

TrueOrEmpty(b) == Str(IF b THEN T_true ELSE <<>>)

\* JSON.stringify of a scalar or of an array of scalars, with no indentation
RECURSIVE JsonText(_)
JsonText(v) ==
    CASE v.t = "string" ->
            <<"\"">> \o ReplaceChar(ReplaceChar(v.s, "\\", <<"\\","\\">>), "\"", <<"\\","\"">>) \o <<"\"">>
      [] v.t = "number" -> IntToStr(v.n)
      [] v.t = "boolean" -> (IF v.b THEN T_true ELSE T_false)
      [] v.t = "null" -> T_null
      [] v.t = "array" ->
            <<"[">> \o JoinWith([i \in 1..Len(v.items) |->
                                   IF v.items[i].t \in {"undefined", "function"}
                                   THEN T_null ELSE JsonText(v.items[i])], <<",">>) \o <<"]">>

\* args[i], undefined past the end
ArgAt(args, i) == IF i <= Len(args) THEN args[i] ELSE Undefined

\* helper(value, ...args) for the helpers the constructor registers.  date
\* and number (Date and Intl formatting) and json with indentation or of an
\* object are not computed by the model: no template of the model uses them.
ApplyHelper(name, value, args) ==
    CASE name = <<"d","e","f","a","u","l","t">> ->
            (IF IsNullish(value) \/ (value.t = "string" /\ value.s = <<>>)
             THEN ArgAt(args, 1) ELSE value)
      [] name = <<"j","s","o","n">> /\ args = <<>> ->
            (IF value.t \in {"undefined", "function"} THEN SafeString(Undefined)
             ELSE SafeString(Str(JsonText(value))))
      [] name = <<"u","p","p","e","r">> -> Str(toUpperCase(StrOrEmpty(value)))
      [] name = <<"l","o","w","e","r">> -> Str(toLowerCase(StrOrEmpty(value)))
      [] name = <<"c","a","p","i","t","a","l","i","z","e">> ->
            (LET s == StrOrEmpty(value)
             IN  Str(IF s # <<>> THEN <<UpperChar(s[1])>> \o Tail(s) ELSE s))
      [] name = <<"t","r","i","m">> -> Str(Trim(StrOrEmpty(value)))
      [] name = <<"l","e","n","g","t","h">> ->
            (CASE value.t = "array" -> Num(Len(value.items))
               [] value.t = "string" -> Num(Len(value.s))
               [] value.t = "object" -> Num(Cardinality(DOMAIN value.f))
               [] value.t = "safe" -> Num(1)
               [] OTHER -> Num(0))
      [] name = <<"j","o","i","n">> ->
            (LET sep == IF ArgAt(args, 1).t = "undefined" THEN <<",">> ELSE ToStr(ArgAt(args, 1))
             IN  IF value.t = "array"
                 THEN Str(JoinWith([i \in 1..Len(value.items) |-> StrOrEmpty(value.items[i])], sep))
                 ELSE Str(StrOrEmpty(value)))
      [] name = <<"e","q">> -> TrueOrEmpty(cmp(value, ArgAt(args, 1)))
      [] name = <<"n","e">> -> TrueOrEmpty(~cmp(value, ArgAt(args, 1)))
      [] name = <<"g","t">> -> TrueOrEmpty(NumRel(value, ArgAt(args, 1), "gt"))
      [] name = <<"g","t","e">> -> TrueOrEmpty(NumRel(value, ArgAt(args, 1), "gte"))
      [] name = <<"l","t">> -> TrueOrEmpty(NumRel(value, ArgAt(args, 1), "lt"))
      [] name = <<"l","t","e">> -> TrueOrEmpty(NumRel(value, ArgAt(args, 1), "lte"))
      [] name = <<"r","a","w">> -> SafeString(value)

\* one argument token of a filter
ParseArg(tok, data) ==
    LET v == Trim(tok)
    IN  IF (StartsWith(v, <<"\"">>) /\ EndsWith(v, <<"\"">>))
           \/ (StartsWith(v, <<"'">>) /\ EndsWith(v, <<"'">>))
        THEN Str(Sub(v, 2, Len(v) - 1))
        ELSE IF IsIntLiteral(v) THEN Num(IntLiteral(v))
        ELSE LET resolved == getValueByPath(data, v)
             IN  IF resolved.t # "undefined" THEN resolved ELSE Str(v)

\* a value, or a thrown error
Val(v) == [err |-> "", v |-> v]

ThrowVal(e) == [err |-> e, v |-> Undefined]

\* a reducer that loses the value at an unregistered helper
ApplyFilter_DropUnknown(value, rawFilter, data, E) ==
    IF rawFilter = <<>> THEN Val(value)
    ELSE LET pieces == SplitOn(rawFilter, ":")
             name == Trim(pieces[1])
             rawArgs == Trim(JoinWith(Tail(pieces), <<":">>))
             toks == IF rawArgs = <<>> THEN <<>> ELSE SplitOn(rawArgs, ",")
             args == [i \in 1..Len(toks) |-> ParseArg(toks[i], data)]
         IN  IF name \notin E.helpers
             THEN (IF E.opts.strict THEN ThrowVal("UnknownHelper") ELSE Val(Undefined))
             ELSE Val(ApplyHelper(name, value, args))

\* the reducer of applyFilters for one filter
ApplyFilter(value, rawFilter, data, E) ==
    IF rawFilter = <<>> THEN Val(value)
    ELSE LET pieces == SplitOn(rawFilter, ":")
             name == Trim(pieces[1])
             rawArgs == Trim(JoinWith(Tail(pieces), <<":">>))
             toks == IF rawArgs = <<>> THEN <<>> ELSE SplitOn(rawArgs, ",")
             args == [i \in 1..Len(toks) |-> ParseArg(toks[i], data)]
         IN  IF name \notin E.helpers
             THEN (IF E.opts.strict THEN ThrowVal("UnknownHelper") ELSE Val(value))
             ELSE Val(ApplyHelper(name, value, args))

RECURSIVE applyFilters(_, _, _, _)

\* the reduction after one filter gave r: a throw ends it
FilterRest(r, rest, data, E) == IF r.err # "" THEN r ELSE applyFilters(r.v, rest, data, E)

applyFilters(initialValue, filterParts, data, E) ==
    IF filterParts = <<>> THEN Val(initialValue)
    ELSE FilterRest(ApplyFilter(initialValue, Head(filterParts), data, E),
                    Tail(filterParts), data, E)

(***************************************************************************)
(* The regular expressions of render.  A matcher says whether its          *)
(* expression matches with the match starting at position i, where the     *)
(* match ends (last position), and the capture groups.  An unmatched or    *)
(* empty group is the empty text.                                          *)
(***************************************************************************)
NoMatch == [ok |-> FALSE, end |-> 0, g1 |-> <<>>, g2 |-> <<>>, g3 |-> <<>>]

Match(end, g1, g2, g3) == [ok |-> TRUE, end |-> end, g1 |-> g1, g2 |-> g2, g3 |-> g3]

OPEN == <<"{","{">>

CLOSE == <<"}","}">>

\* RE_LINE_COMMENT = /{{!\s*[^}]*}}/g
MatchLineComment(s, i) ==
    IF ~At(s, i, <<"{","{","!">>) THEN NoMatch
    ELSE LET c == SkipNotClose(s, i + 3)
         IN  IF At(s, c, CLOSE) THEN Match(c + 1, <<>>, <<>>, <<>>) ELSE NoMatch

\* RE_BLOCK_COMMENT = /{{!--[\s\S]*?--}}/g
MatchBlockComment(s, i) ==
    IF ~At(s, i, <<"{","{","!","-","-">>) THEN NoMatch
    ELSE LET k == Find(s, i + 5, <<"-","-","}","}">>)
         IN  IF k # 0 THEN Match(k + 3, <<>>, <<>>, <<>>) ELSE NoMatch

\* ^ under the m flag: the start of the text or just after a line terminator
LineStart(s, i) == i = 1 \/ (i >= 2 /\ i <= Len(s) + 1 /\ s[i - 1] \in {"\n", "\r"})

\* RE_PARTIAL_WITH_INDENT = /(^[ \t]*){{>\s*([\w.]+)(?:\s+([^}]+))?\s*}}/gm
\* g1 = indent, g2 = name, g3 = ctx.  With only white space between the name
\* and }}, two or more characters of it leave the last one as ctx.
MatchPartial(s, i) ==
    IF ~LineStart(s, i) THEN NoMatch
    ELSE LET b == SkipBlank(s, i)
         IN  IF ~At(s, b, <<"{","{",">">>) THEN NoMatch
             ELSE LET n0 == SkipSpace(s, b + 3)
                      n1 == SkipName(s, n0)
                      w == SkipSpace(s, n1)
                      c == SkipNotClose(s, n1)
                      ctx == IF c > w /\ w > n1 THEN Sub(s, w, c - 1)
                             ELSE IF c = w /\ w - n1 >= 2 THEN Sub(s, w - 1, w - 1)
                             ELSE <<>>
                  IN  IF n1 > n0 /\ At(s, c, CLOSE) /\ (w > n1 \/ c = n1)
                      THEN Match(c + 1, Sub(s, i, b - 1), Sub(s, n0, n1 - 1), ctx)
                      ELSE NoMatch

\* the tail [ \t]*(?:\r?\n|$) of RE_STANDALONE from position e: the last
\* position matched, or -1
StandaloneTail(s, e) ==
    LET t == SkipBlank(s, e)
    IN  IF t = Len(s) + 1 THEN Len(s)
        ELSE IF s[t] = "\n" THEN t
        ELSE IF At(s, t, <<"\r","\n">>) THEN t + 1
        ELSE -1

\* the tag alternatives of RE_STANDALONE from the {{ at b: the position of
\* the }} that ends the tag (followed by the tail), or 0
StandaloneTagClose(s, b) ==
    IF At(s, b + 2, <<"!">>)
    THEN LET ks == {k \in (b + 3)..Len(s) : At(s, k, CLOSE) /\ StandaloneTail(s, k + 2) # -1}
         IN  IF ks = {} THEN 0 ELSE MinOf(ks)
    ELSE IF At(s, b + 2, <<">">>)
    THEN LET n0 == SkipSpace(s, b + 3)
             n1 == SkipName(s, n0)
             c == SkipNotClose(s, n1)
         IN  IF /\ n1 > n0
                /\ At(s, c, CLOSE)
                /\ (c = n1 \/ (c >= n1 + 2 /\ IsSpace(s[n1])))
                /\ StandaloneTail(s, c + 2) # -1
             THEN c ELSE 0
    ELSE IF b + 2 <= Len(s) /\ s[b + 2] \in {"#", "/", "^"}
    THEN LET c == SkipNotClose(s, b + 3)
         IN  IF At(s, c, CLOSE) /\ StandaloneTail(s, c + 2) # -1 THEN c ELSE 0
    ELSE 0

\* RE_STANDALONE =
\*   /(^|\r?\n)[ \t]*{{(?:![\s\S]*?|>\s*[\w.]+(?:\s+[^}]+)?|[#\/^][^}]*)}}[ \t]*(?:\r?\n|$)/g
\* (no m flag: ^ and $ are the ends of the text).  g1 = the leading line break.
MatchStandaloneAfter(s, i, p1) ==
    LET b == SkipBlank(s, i + Len(p1))
    IN  IF ~At(s, b, OPEN) THEN NoMatch
        ELSE LET c == StandaloneTagClose(s, b)
             IN  IF c = 0 THEN NoMatch
                 ELSE Match(StandaloneTail(s, c + 2), p1, <<>>, <<>>)

MatchStandalone(s, i) ==
    LET atStart == IF i = 1 THEN MatchStandaloneAfter(s, i, <<>>) ELSE NoMatch
    IN  IF atStart.ok THEN atStart
        ELSE IF At(s, i, <<"\r","\n">>) THEN MatchStandaloneAfter(s, i, <<"\r","\n">>)
        ELSE IF At(s, i, <<"\n">>) THEN MatchStandaloneAfter(s, i, <<"\n">>)
        ELSE NoMatch

\* RE_SECTION = /{{#\s*([\w.]+)\s*}}([\s\S]*?){{\/\s*\1\s*}}/g and RE_INVERTED,
\* which has ^ for #.  g1 = name, g2 = block.
MatchSectionLike(s, i, sigil) ==
    IF ~At(s, i, OPEN \o <<sigil>>) THEN NoMatch
    ELSE LET n0 == SkipSpace(s, i + 3)
             n1 == SkipName(s, n0)
             w == SkipSpace(s, n1)
             name == Sub(s, n0, n1 - 1)
             ClosesAt(k) ==
                 /\ At(s, k, <<"{","{","/">>)
                 /\ LET c0 == SkipSpace(s, k + 3)
                    IN  /\ At(s, c0, name)
                        /\ At(s, SkipSpace(s, c0 + Len(name)), CLOSE)
             CloseEnd(k) == SkipSpace(s, SkipSpace(s, k + 3) + Len(name)) + 1
         IN  IF n1 > n0 /\ At(s, w, CLOSE)
             THEN LET ks == {k \in (w + 2)..Len(s) : ClosesAt(k)}
                  IN  IF ks = {} THEN NoMatch
                      ELSE Match(CloseEnd(MinOf(ks)), name, Sub(s, w + 2, MinOf(ks) - 1), <<>>)
             ELSE NoMatch

\* RE_IF = /{{#if ([^}]+)}}([\s\S]*?){{\/if}}/g, RE_UNLESS and RE_EACH, which
\* differ in the keyword.  g1 = the path, g2 = the block.
MatchKeywordBlock(s, i, word) ==
    LET opener == <<"{","{","#">> \o word \o <<" ">>
        closer == <<"{","{","/">> \o word \o CLOSE
    IN  IF ~At(s, i, opener) THEN NoMatch
        ELSE LET p0 == i + Len(opener)
                 c == SkipNotClose(s, p0)
                 k == Find(s, c + 2, closer)
             IN  IF c > p0 /\ At(s, c, CLOSE) /\ k # 0
                 THEN Match(k + Len(closer) - 1, Sub(s, p0, c - 1), Sub(s, c + 2, k - 1), <<>>)
                 ELSE NoMatch

\* RE_TRIPLE = /{{{\s*([^}]+)\s*}}}/g.  g1 = the inner text (the callback trims it).
MatchTriple(s, i) ==
    IF ~At(s, i, <<"{","{","{">>) THEN NoMatch
    ELSE LET c == SkipNotClose(s, i + 3)
         IN  IF c > i + 3 /\ At(s, c, <<"}","}","}">>)
             THEN Match(c + 2, Sub(s, i + 3, c - 1), <<>>, <<>>)
             ELSE NoMatch

\* RE_VAR = /{{\s*([^}]+)\s*}}/g.  g1 = the inner text (the callback trims it).
MatchVar(s, i) ==
    IF ~At(s, i, OPEN) THEN NoMatch
    ELSE LET c == SkipNotClose(s, i + 2)
         IN  IF c > i + 2 /\ At(s, c, CLOSE)
             THEN Match(c + 1, Sub(s, i + 2, c - 1), <<>>, <<>>)
             ELSE NoMatch

\* /{{\s*word\s*}}/ : RE_ELSE_SPLIT and the token expressions of the each pass
MatchToken(s, i, word) ==
    IF ~At(s, i, OPEN) THEN NoMatch
    ELSE LET n0 == SkipSpace(s, i + 2)
             w == SkipSpace(s, n0 + Len(word))
         IN  IF At(s, n0, word) /\ At(s, w, CLOSE)
             THEN Match(w + 1, <<>>, <<>>, <<>>)
             ELSE NoMatch

W_if == <<"i","f">>

W_unless == <<"u","n","l","e","s","s">>

W_each == <<"e","a","c","h">>

W_else == <<"e","l","s","e">>

W_index == <<"@","i","n","d","e","x">>

W_first == <<"@","f","i","r","s","t">>

W_last == <<"@","l","a","s","t">>

\* the expression named re, tried at position i
MatchAt(re, s, i) ==
    CASE re = "RE_LINE_COMMENT" -> MatchLineComment(s, i)
      [] re = "RE_BLOCK_COMMENT" -> MatchBlockComment(s, i)
      [] re = "RE_PARTIAL_WITH_INDENT" -> MatchPartial(s, i)
      [] re = "RE_STANDALONE" -> MatchStandalone(s, i)
      [] re = "RE_SECTION" -> MatchSectionLike(s, i, "#")
      [] re = "RE_INVERTED" -> MatchSectionLike(s, i, "^")
      [] re = "RE_IF" -> MatchKeywordBlock(s, i, W_if)
      [] re = "RE_UNLESS" -> MatchKeywordBlock(s, i, W_unless)
      [] re = "RE_EACH" -> MatchKeywordBlock(s, i, W_each)
      [] re = "RE_TRIPLE" -> MatchTriple(s, i)
      [] re = "RE_VAR" -> MatchVar(s, i)

\* the least of a set of positions, 0 when there is none
FirstOf(S) == IF S = {} THEN 0 ELSE MinOf(S)

\* the leftmost position >= pos where re matches, 0 when there is none
NextMatch(re, s, pos) == FirstOf({i \in pos..Len(s) : MatchAt(re, s, i).ok})

\* the leftmost position >= pos where /{{\s*word\s*}}/ matches, 0 when
\* there is none
NextToken(word, s, pos) == FirstOf({i \in pos..Len(s) : MatchToken(s, i, word).ok})

(***************************************************************************)
(* render                                                                  *)
(*                                                                         *)
(* E is what a render reads of the engine: E.opts (this.options),          *)
(* E.partials (this.partials) and E.helpers (the keys of this.helpers).    *)
(***************************************************************************)
Ok(out) == [err |-> "", out |-> out]

Throw(e) == [err |-> e, out |-> <<>>]

\* the outcome of two renders whose outputs are joined: the error of the
\* first that throws, or both outputs
JoinResults(r, rest) ==
    IF r.err # "" THEN r
    ELSE IF rest.err # "" THEN rest
    ELSE Ok(r.out \o rest.out)

RECURSIVE SplitElse(_)

\* the pieces of s when its first {{else}} starts at i (0: there is none)
SplitElseAt(s, i) ==
    IF i = 0 THEN <<s>>
    ELSE <<Sub(s, 1, i - 1)>> \o SplitElse(From(s, MatchToken(s, i, W_else).end + 1))

\* String(content).split(RE_ELSE_SPLIT)
SplitElse(s) == SplitElseAt(s, NextToken(W_else, s, 1))

\* String.prototype.split(/\r?\n/)
RECURSIVE SplitLines(_)
SplitLines(s) ==
    LET n == Find(s, 1, <<"\n">>)
    IN  IF n = 0 THEN <<s>>
        ELSE <<Sub(s, 1, IF n >= 2 /\ s[n - 1] = "\r" THEN n - 2 ELSE n - 1)>>
                 \o SplitLines(From(s, n + 1))

\* the $ patterns of a replacement text (no capture groups), for a match
\* s[i..j]
RECURSIVE ExpandDollar(_, _, _, _)
ExpandDollar(repl, s, i, j) ==
    IF repl = <<>> THEN <<>>
    ELSE IF repl[1] = "$" /\ Len(repl) >= 2 /\ repl[2] \in {"$", "&", "`", "'"}
    THEN (CASE repl[2] = "$" -> <<"$">>
            [] repl[2] = "&" -> Sub(s, i, j)
            [] repl[2] = "`" -> Sub(s, 1, i - 1)
            [] repl[2] = "'" -> From(s, j + 1))
         \o ExpandDollar(From(repl, 3), s, i, j)
    ELSE <<repl[1]>> \o ExpandDollar(Tail(repl), s, i, j)

RECURSIVE ReplaceText(_, _, _, _)

\* s.replace from pos when the next match is s[i..j] (i = 0: there is none)
ReplaceTextAt(word, s, pos, repl, i, j) ==
    IF i = 0 THEN From(s, pos)
    ELSE Sub(s, pos, i - 1) \o ExpandDollar(repl, s, i, j) \o ReplaceText(word, s, j + 1, repl)

ReplaceTextFrom(word, s, pos, repl, i) ==
    ReplaceTextAt(word, s, pos, repl, i, IF i = 0 THEN 0 ELSE MatchToken(s, i, word).end)

\* s.replace(/{{\s*word\s*}}/g, repl) for a replacement text, from pos
ReplaceText(word, s, pos, repl) ==
    ReplaceTextFrom(word, s, pos, repl, NextToken(word, s, pos))

RECURSIVE Render(_, _, _)
RECURSIVE ReplaceFrom(_, _, _, _, _)
RECURSIVE RenderItems(_, _, _, _)
RECURSIVE RenderEach(_, _, _, _, _)

\* value.call(data) of the triple and variable passes, inside try/catch: a
\* function called without the render callback.  A body that calls render
\* throws a TypeError there.
CallVarLambda(fn) ==
    CASE fn.body = "const" -> fn.v
      [] fn.body = "echo" -> Undefined
      [] OTHER -> Str(<<>>)

\* what a function that wraps a render returns, or what that render threw
\* (the function does not catch it)
Wrapped(fn, r) == IF r.err # "" THEN ThrowVal(r.err) ELSE Val(Str(fn.pre \o r.out \o fn.post))

\* value.call(data, block, render) of the section pass: the returned value,
\* or what was thrown (by the function itself or by the render callback)
CallSectionLambda(fn, block, data, E) ==
    CASE fn.body = "throw" -> ThrowVal("LambdaError")
      [] fn.body = "const" -> Val(fn.v)
      [] fn.body = "echo" -> Val(Str(block))
      [] fn.body \in {"wrap", "wrapOwn"} ->
            Wrapped(fn, Render(IF fn.body = "wrap" THEN block ELSE fn.tpl, data, E))

\* the return statement of the try block, for what the call gave
LambdaResult(c, data, E) ==
    IF c.err # "" THEN Throw(c.err)
    ELSE IF c.v.t = "string" THEN Render(c.v.s, data, E)
    ELSE Ok(StrOrEmpty(c.v))

\* the body of the try block of the section pass
SectionLambdaTry(fn, block, data, E) ==
    LambdaResult(CallSectionLambda(fn, block, data, E), data, E)

\* try { ... } catch { return ""; }
CatchAll(r) == IF r.err # "" THEN Ok(<<>>) ELSE r

\* ctxData of the partial pass, for the ctx group and what its path resolves to
PartialCtx(data, ctx, resolved) ==
    IF ctx = <<>> THEN data
    ELSE IF Truthy(resolved) /\ IsObjectLike(resolved) THEN Overlay(data, resolved)
    ELSE WithThis(data, resolved)

\* an indentation that prefixes every line, empty lines included
IndentLines_EveryLine(indent, lines) == [i \in 1..Len(lines) |-> indent \o lines[i]]

\* indent + line for the first line and for every non-empty line
IndentLines(indent, lines) ==
    [i \in 1..Len(lines) |-> IF i = 1 \/ lines[i] # <<>> THEN indent \o lines[i] ELSE lines[i]]

\* the rendered partial, indented when the tag is
Indented(indent, r) ==
    IF r.err # "" \/ indent = <<>> THEN r
    ELSE Ok(JoinWith(IndentLines(indent, SplitLines(r.out)), <<"\n">>))

\* the partial pass for the trimmed name: an unregistered name and a
\* registered empty text both fail `if (!partial)`
PartialNamed(partialName, m, data, E) ==
    IF partialName \notin DOMAIN E.partials \/ E.partials[partialName] = <<>>
    THEN (IF E.opts.strict THEN Throw("UnknownPartial") ELSE Ok(<<>>))
    ELSE Indented(m.g1, Render(E.partials[partialName],
                               PartialCtx(data, m.g3, getValueByPath(data, Trim(m.g3))), E))

\* the callback of the partial pass
PartialRepl(m, data, E) == PartialNamed(Trim(m.g2), m, data, E)

\* the context of a section block for an item or a truthy value
SectionCtx(data, value) ==
    IF IsObjectLike(value) THEN Overlay(data, value) ELSE WithThis(data, value)

\* value.map(item => this.render(block, ctx)).join("") of the section pass
RenderItems(items, block, data, E) ==
    IF items = <<>> THEN Ok(<<>>)
    ELSE JoinResults(Render(block, SectionCtx(data, Head(items)), E),
                     RenderItems(Tail(items), block, data, E))

\* the section pass for the value of the section's name
SectionFor(value, m, data, E) ==
    IF value.t = "function" THEN CatchAll(SectionLambdaTry(value, m.g2, data, E))
    ELSE IF value.t = "array" THEN RenderItems(value.items, m.g2, data, E)
    ELSE IF Truthy(value) THEN Render(m.g2, SectionCtx(data, value), E)
    ELSE Ok(<<>>)

\* the callback of the Mustache section pass
SectionRepl(m, data, E) == SectionFor(getValueByPath(data, Trim(m.g1)), m, data, E)

\* shouldRender of the inverted section pass
ShouldRender(value) == IF value.t = "array" THEN value.items = <<>> ELSE ~Truthy(value)

\* the callback of the inverted section pass
InvertedRepl(m, data, E) ==
    IF ShouldRender(getValueByPath(data, Trim(m.g1))) THEN Render(m.g2, data, E) ELSE Ok(<<>>)

\* parts[i] ?? ""
PartOrEmpty(parts, i) == IF i <= Len(parts) THEN parts[i] ELSE <<>>

\* cond ? parts[0] ?? "" : parts[1] ?? ""
ChoosePart(cond, parts) == IF cond THEN PartOrEmpty(parts, 1) ELSE PartOrEmpty(parts, 2)

\* the callback of the if pass
IfRepl(m, data, E) ==
    Ok(ChoosePart(Truthy(getValueByPath(data, Trim(m.g1))), SplitElse(m.g2)))

\* the callback of the unless pass
UnlessRepl(m, data, E) ==
    Ok(ChoosePart(~Truthy(getValueByPath(data, Trim(m.g1))), SplitElse(m.g2)))

\* the text the each pass renders for the item at index idx (from 0) of n
EachItemText(loopTpl, item, idx, n) ==
    LET r1 == ReplaceText(K_this, loopTpl, 1, ToStr(item))
        r2 == ReplaceText(<<".">>, r1, 1, ToStr(item))
        r3 == ReplaceText(W_index, r2, 1, NatToStr(idx))
        r4 == ReplaceText(W_first, r3, 1, IF idx = 0 THEN T_true ELSE <<>>)
    IN  ReplaceText(W_last, r4, 1, IF idx = n - 1 THEN T_true ELSE <<>>)

\* arr.map((item, idx) => ...).join("") of the each pass, from index idx
RenderEach(items, idx, loopTpl, data, E) ==
    IF idx >= Len(items) THEN Ok(<<>>)
    ELSE JoinResults(Render(EachItemText(loopTpl, items[idx + 1], idx, Len(items)),
                            WithThis(data, items[idx + 1]), E),
                     RenderEach(items, idx + 1, loopTpl, data, E))

\* the each pass for the value of the path and the parts of the block
EachOver(arr, parts, data, E) ==
    IF arr.t # "array" \/ arr.items = <<>> THEN Ok(PartOrEmpty(parts, 2))
    ELSE RenderEach(arr.items, 0, PartOrEmpty(parts, 1), data, E)

\* the callback of the each pass
EachRepl(m, data, E) == EachOver(getValueByPath(data, Trim(m.g1)), SplitElse(m.g2), data, E)

\* path and filters of an interpolation: raw.split("|").map(s => s.trim())
TrimAll(segs) == [i \in 1..Len(segs) |-> Trim(segs[i])]

Segments(raw) == TrimAll(SplitOn(raw, "|"))

\* the value after the variable lambda call
Called(value) == IF value.t = "function" THEN CallVarLambda(value) ELSE value

\* the value of an interpolation after the lambda call and the filters
ExprValue(first, segments, data, E) ==
    IF Len(segments) > 1 THEN applyFilters(Called(first), Tail(segments), data, E)
    ELSE Val(Called(first))

\* the value the triple pass starts from: "." is the current item
TripleFirst(path, data) ==
    IF path = <<".">>
    THEN (IF HasOwn(data, K_this) THEN GetOwn(data, K_this) ELSE data)
    ELSE getValueByPath(data, path)

\* what the triple pass returns for the filtered value
TripleOut(r) ==
    IF r.err # "" THEN Throw(r.err)
    ELSE IF IsNullish(r.v) THEN Ok(<<>>)
    ELSE Ok(ToStr(r.v))

TripleOf(segments, data, E) ==
    TripleOut(ExprValue(TripleFirst(segments[1], data), segments, data, E))

\* the callback of the triple-brace pass
TripleRepl(m, data, E) == TripleOf(Segments(Trim(m.g1)), data, E)

\* a variable pass that never raises
VarOut_NeverRaises(r, E) ==
    IF r.err # "" THEN Throw(r.err)
    ELSE IF IsNullish(r.v) THEN Ok(<<>>)
    ELSE IF E.opts.escapeHtml /\ r.v.t # "safe" THEN Ok(escapeFn(E.opts, ToStr(r.v)))
    ELSE Ok(ToStr(r.v))

\* what the variable pass returns for the filtered value
VarOut(r, E) ==
    IF r.err # "" THEN Throw(r.err)
    ELSE IF IsNullish(r.v)
    THEN (IF E.opts.strictVariables THEN Throw("UnknownVariable") ELSE Ok(<<>>))
    ELSE IF E.opts.escapeHtml /\ r.v.t # "safe" THEN Ok(escapeFn(E.opts, ToStr(r.v)))
    ELSE Ok(ToStr(r.v))

VarOf(segments, data, E) ==
    VarOut(ExprValue(getValueByPath(data, segments[1]), segments, data, E), E)

\* the variable pass for the trimmed text of the tag
VarRaw(raw, data, E) ==
    IF StartsWith(raw, <<"#">>) \/ StartsWith(raw, <<"/">>) \/ StartsWith(raw, <<">">>)
    THEN Ok(<<>>)
    ELSE VarOf(Segments(raw), data, E)

\* the callback of the variable pass
VarRepl(m, data, E) == VarRaw(Trim(m.g1), data, E)

\* the replacement of one match of the expression re
Callback(re, m, data, E) ==
    CASE re \in {"RE_LINE_COMMENT", "RE_BLOCK_COMMENT"} -> Ok(<<>>)
      [] re = "RE_PARTIAL_WITH_INDENT" -> PartialRepl(m, data, E)
      [] re = "RE_STANDALONE" -> Ok(m.g1)
      [] re = "RE_SECTION" -> SectionRepl(m, data, E)
      [] re = "RE_INVERTED" -> InvertedRepl(m, data, E)
      [] re = "RE_IF" -> IfRepl(m, data, E)
      [] re = "RE_UNLESS" -> UnlessRepl(m, data, E)
      [] re = "RE_EACH" -> EachRepl(m, data, E)
      [] re = "RE_TRIPLE" -> TripleRepl(m, data, E)
      [] re = "RE_VAR" -> VarRepl(m, data, E)

\* the replaced text from pos on, for the match m that starts at i: the text
\* before the match, the callback's result and the rest; the first callback
\* that throws ends the render
ReplaceMatch(re, s, pos, i, m, data, E) ==
    JoinResults(JoinResults(Ok(Sub(s, pos, i - 1)), Callback(re, m, data, E)),
                ReplaceFrom(re, s, m.end + 1, data, E))

\* the replaced text from pos on when the next match starts at i (0: none)
ReplaceAt(re, s, pos, i, data, E) ==
    IF i = 0 THEN Ok(From(s, pos))
    ELSE ReplaceMatch(re, s, pos, i, MatchAt(re, s, i), data, E)

\* output.replace(re, callback) from position pos: the matches are found
\* left to right in s
ReplaceFrom(re, s, pos, data, E) == ReplaceAt(re, s, pos, NextMatch(re, s, pos), data, E)

\* one pass over the output of the passes before it
Pass(r, re, data, E) == IF r.err # "" THEN r ELSE ReplaceFrom(re, r.out, 1, data, E)

\* the order of the passes in render
PassOrder ==
    << "RE_LINE_COMMENT", "RE_BLOCK_COMMENT", "RE_PARTIAL_WITH_INDENT", "RE_STANDALONE",
       "RE_SECTION", "RE_INVERTED", "RE_IF", "RE_UNLESS", "RE_EACH", "RE_TRIPLE", "RE_VAR" >>

RECURSIVE RunPasses(_, _, _, _)
RunPasses(r, passes, data, E) ==
    IF passes = <<>> THEN r
    ELSE RunPasses(Pass(r, Head(passes), data, E), Tail(passes), data, E)

\* TemplateEngine.render
Render(template, data, E) == RunPasses(Ok(template), PassOrder, data, E)

(***************************************************************************)
(* The engine                                                              *)
(***************************************************************************)
\* the defaults of the constructor
DefaultOptions ==
    [escapeHtml |-> TRUE, escapeFn |-> "escapeHtml", strict |-> FALSE,
     strictVariables |-> FALSE, cacheTemplates |-> FALSE, cacheSize |-> 200]

\* { ...this.options, ...(options || {}) }
MergeOptions(current, given) ==
    [k \in DOMAIN current |-> IF k \in DOMAIN given THEN given[k] ELSE current[k]]

\* Map.prototype.get / has / set / delete on the entries of a Map, kept in
\* insertion order
MapHas(entries, key) == \E i \in 1..Len(entries) : entries[i].key = key

\* a lookup that returns the oldest entry's renderer whatever the key
MapGet_Oldest(entries, key) == entries[1].fn

MapGet(entries, key) == entries[CHOOSE i \in 1..Len(entries) : entries[i].key = key].fn

MapSet(entries, key, fn) ==
    IF MapHas(entries, key)
    THEN [i \in 1..Len(entries) |-> IF entries[i].key = key THEN [key |-> key, fn |-> fn] ELSE entries[i]]
    ELSE Append(entries, [key |-> key, fn |-> fn])

MapDelete(entries, key) == SelectSeq(entries, LAMBDA e : e.key # key)

\* the renderers held by a Map's entries
FnsOf(entries) == {entries[i].fn : i \in 1..Len(entries)}

NoCache == [defined |-> FALSE, entries |-> <<>>]

NewMap == [defined |-> TRUE, entries |-> <<>>]

\* what the constructor leaves in this.tplCache
ConstructorCache(opts) == IF opts.cacheTemplates THEN NewMap ELSE NoCache

\* a setOptions that leaves the cache in place when caching is disabled
SetOptionsCache_KeepOnDisable(prevCache, opts, cache) ==
    IF opts.cacheTemplates /\ ~cache.defined THEN NewMap ELSE cache

\* what setOptions leaves in this.tplCache, from the cacheTemplates option
\* before the call, the merged options and the cache before the call
SetOptionsCache(prevCache, opts, cache) ==
    LET created == IF opts.cacheTemplates /\ ~cache.defined THEN NewMap ELSE cache
    IN  IF ~opts.cacheTemplates /\ prevCache /\ created.defined THEN NoCache ELSE created

\* an eviction that deletes the newest key in place of the oldest
InsertAndEvict_Newest(entries, template, fn, cacheSize) ==
    LET inserted == MapSet(entries, template, fn)
    IN  IF Len(inserted) > cacheSize THEN MapDelete(inserted, inserted[Len(inserted)].key) ELSE inserted

\* the entries compile leaves after this.tplCache.set(template, fn): the
\* oldest key is deleted when the size exceeds cacheSize
InsertAndEvict(entries, template, fn, cacheSize) ==
    LET inserted == MapSet(entries, template, fn)
    IN  IF Len(inserted) > cacheSize THEN MapDelete(inserted, inserted[1].key) ELSE inserted

\* compile with a cache: the renderer returned, whether it came from the
\* cache, and the entries left
CompileCached(entries, template, id, cacheSize) ==
    IF MapHas(entries, template)
    THEN [fn |-> MapGet(entries, template), hit |-> TRUE, entries |-> entries]
    ELSE [fn |-> [id |-> id, tpl |-> template], hit |-> FALSE,
          entries |-> InsertAndEvict(entries, template, [id |-> id, tpl |-> template], cacheSize)]

\* what a render reads of the engine
Env == [opts |-> options, partials |-> partials, helpers |-> BuiltinHelpers]

\* this.partials.set(name, template)
PartialsSet(ps, name, template) ==
    [k \in (DOMAIN ps) \cup {name} |-> IF k = name THEN template ELSE ps[k]]

\* new TemplateEngine(given)
Constructor(given) ==
    /\ options = MergeOptions(DefaultOptions, given)
    /\ tplCache = ConstructorCache(options)
    /\ partials = <<>>
    /\ nextId = 1
    /\ held = <<>>
    /\ gone = {}
    /\ regLog = <<>>
    /\ last = [op |-> "new"]
    /\ steps = 0

\* registerPartial(name, template)
RegisterPartial(name, template) ==
    /\ partials' = PartialsSet(partials, name, template)
    /\ regLog' = Append(regLog, [name |-> name, tpl |-> template])
    /\ last' = [op |-> "registerPartial", name |-> name, tpl |-> template]
    /\ steps' = steps + 1
    /\ UNCHANGED <<options, tplCache, nextId, held, gone>>

\* setOptions(given)
SetOptions(given) ==
    /\ options' = MergeOptions(options, given)
    /\ tplCache' = SetOptionsCache(options.cacheTemplates, options', tplCache)
    /\ gone' = gone \cup (FnsOf(tplCache.entries) \ FnsOf(tplCache'.entries))
    /\ last' = [op |-> "setOptions", given |-> given, prev |-> options, before |-> tplCache]
    /\ steps' = steps + 1
    /\ UNCHANGED <<partials, nextId, held, regLog>>

\* compile(template)
Compile(template) ==
    LET c == IF tplCache.defined
             THEN CompileCached(tplCache.entries, template, nextId, options.cacheSize)
             ELSE [fn |-> [id |-> nextId, tpl |-> template], hit |-> FALSE, entries |-> <<>>]
        evicted == IF tplCache.defined
                   THEN (FnsOf(tplCache.entries) \cup {c.fn}) \ FnsOf(c.entries)
                   ELSE {}
    IN  /\ tplCache' = [tplCache EXCEPT !.entries = c.entries]
        /\ nextId' = IF c.hit THEN nextId ELSE nextId + 1
        /\ held' = Append(held, [fn |-> c.fn, tpl |-> template, cached |-> tplCache.defined])
        /\ gone' = gone \cup evicted
        /\ last' = [op |-> "compile", tpl |-> template, fn |-> c.fn, hit |-> c.hit,
                    cached |-> tplCache.defined, before |-> tplCache.entries,
                    evicted |-> evicted]
        /\ steps' = steps + 1
        /\ UNCHANGED <<options, partials, regLog>>

\* fn(data) for the renderer returned by the h-th compile call.  A render
\* changes nothing of the engine, so a render that follows a render reaches
\* no engine state the first did not: the model takes none, and a render is
\* not counted in steps.
Invoke(h, data) ==
    /\ h \in 1..Len(held)
    /\ last.op \notin {"render", "invoke"}
    /\ last' = [op |-> "invoke", h |-> h, tpl |-> held[h].fn.tpl, data |-> data,
                res |-> Render(held[h].fn.tpl, data, Env)]
    /\ UNCHANGED <<options, tplCache, partials, nextId, held, gone, regLog, steps>>

\* render(template, data)
RenderCall(template, data) ==
    /\ last.op \notin {"render", "invoke"}
    /\ last' = [op |-> "render", tpl |-> template, data |-> data,
                res |-> Render(template, data, Env)]
    /\ UNCHANGED <<options, tplCache, partials, nextId, held, gone, regLog, steps>>

(***************************************************************************)
(* The compile cache: constructor, setOptions and compile                  *)
(***************************************************************************)
MaxSteps == 5

MaxCacheSize == 2

CacheTemplates == {<<"A">>, <<"B">>, <<"C">>}

CtorArgs ==
    {<<>>} \cup {[cacheTemplates |-> TRUE, cacheSize |-> n] : n \in 0..MaxCacheSize}

SetOptionsArgs ==
    {[cacheTemplates |-> TRUE], [cacheTemplates |-> FALSE], [cacheSize |-> 1],
     [strict |-> TRUE, cacheSize |-> MaxCacheSize]}

Init == \E given \in CtorArgs : Constructor(given)

Next ==
    \/ \E given \in SetOptionsArgs : steps < MaxSteps /\ SetOptions(given)
    \/ \E template \in CacheTemplates : steps < MaxSteps /\ Compile(template)

Spec == Init /\ [][Next]_vars

\* the renderers present in the cache right after the insertion of a compile
\* call that missed
PresentAfterInsert == FnsOf(last.before) \cup {last.fn}

\* the index in held of the most recent compile call for a template
LastCompiled(template) == MaxOf({h \in 1..Len(held) : held[h].tpl = template})

AllCached == \A h \in 1..Len(held) : held[h].cached

C6_SameRendererIffStillCached ==
    /\ \A a, b \in 1..Len(held) :
            held[a].tpl # held[b].tpl => held[a].fn.id # held[b].fn.id
    /\ (last.op = "compile" /\ last.cached) =>
            \A a \in 1..(Len(held) - 1) :
                (held[a].cached /\ held[a].tpl = last.tpl) =>
                    (held[a].fn.id = last.fn.id <=> held[a].fn \notin gone)

\* C6 witness: the second call for A returns the first call's renderer, and
\* after A's eviction a later call for A returns another one
C6_Witness ==
    /\ Len(held) = 4
    /\ AllCached
    /\ held[1].tpl = held[2].tpl
    /\ held[1].tpl = held[4].tpl
    /\ held[2].fn.id = held[1].fn.id
    /\ held[4].fn.id # held[1].fn.id
    /\ held[1].fn \in gone

\* C7 as claimed: after every operation the number of cached entries is at
\* most the current cacheSize.
C7_CacheWithinCacheSize ==
    tplCache.defined => Len(tplCache.entries) <= options.cacheSize

\* C8 as claimed: the cache is LRU, so the entry a compile call evicts on
\* overflow belongs to the template compiled least recently among those
\* present.
C8_EvictsLeastRecentlyCompiled ==
    (last.op = "compile" /\ last.cached /\ ~last.hit /\ last.evicted # {}) =>
        \A e \in last.evicted : \A f \in PresentAfterInsert :
            LastCompiled(e.tpl) <= LastCompiled(f.tpl)

\* C9: a compile cache exists exactly when cacheTemplates is true; setOptions
\* changes the supplied keys and no others; disabling cacheTemplates discards
\* the cache with every entry, a re-enabled cache starts empty, and no
\* compile call returns a renderer whose entry was discarded.
C9_CacheExistsIffEnabled ==
    /\ tplCache.defined <=> options.cacheTemplates
    /\ ~tplCache.defined => tplCache.entries = <<>>
    /\ last.op = "setOptions" =>
            /\ \A k \in DOMAIN options :
                    options[k] = IF k \in DOMAIN last.given THEN last.given[k] ELSE last.prev[k]
            /\ (last.prev.cacheTemplates /\ ~options.cacheTemplates) =>
                    (tplCache = NoCache /\ FnsOf(last.before.entries) \subseteq gone)
            /\ (~last.prev.cacheTemplates /\ options.cacheTemplates) => tplCache = NewMap
    /\ \A i \in 1..Len(tplCache.entries) : tplCache.entries[i].fn \notin gone
    /\ (last.op = "compile" /\ last.hit) => last.fn \in FnsOf(tplCache.entries)
    /\ (last.op = "compile" /\ ~last.hit) =>
            \A a \in 1..(Len(held) - 1) : held[a].fn.id # last.fn.id

\* C9 witness: A is compiled into the cache, caching is disabled and enabled
\* again, and the next compile of A returns a new renderer
C9_Witness ==
    /\ last.op = "compile"
    /\ Len(held) = 2
    /\ AllCached
    /\ held[1].tpl = held[2].tpl
    /\ held[1].fn \in gone
    /\ held[2].fn.id # held[1].fn.id
    /\ options.cacheSize >= 1
    /\ steps = 4

(***************************************************************************)
(* Rendering: templates and contexts                                       *)
(***************************************************************************)
\* {{ inner }}
Tag(inner) == OPEN \o inner \o CLOSE

\* {{{ inner }}}
Triple(inner) == <<"{">> \o OPEN \o inner \o CLOSE \o <<"}">>

\* {{#name}}block{{/name}}
SectionOf(name, block) == Tag(<<"#">> \o name) \o block \o Tag(<<"/">> \o name)

\* {{#each path}}block{{/each}}
EachOf(path, block) == Tag(<<"#">> \o W_each \o <<" ">> \o path) \o block \o Tag(<<"/">> \o W_each)

\* {{> name}}
PartialTag(name) == Tag(<<">", " ">> \o name)

S_plain == <<"a">>

S_html == <<"<","b",">">>

S_amp == <<"a","&","b">>

S_quotes == <<"\"","'">>

S_tag == Tag(<<"x">>)

RenderStrings == {S_plain, S_html, S_amp, S_quotes, S_tag}

\* what a section function of the context does: see Lambda
LambdaBodies == {"wrap", "echo", "throw"}

\* the context { v: s, a: [s], o: true, w: <function> }; x is not a key of it
DataFor(s, body) ==
    Obj([k \in {<<"v">>, <<"a">>, <<"o">>, <<"w">>} |->
            CASE k = <<"v">> -> Str(s)
              [] k = <<"a">> -> Arr(<<Str(s)>>)
              [] k = <<"o">> -> Bool(TRUE)
              [] k = <<"w">> -> Lambda(body, Undefined, <<>>, <<>>, <<>>)])

RenderData == {DataFor(s, body) : s \in RenderStrings, body \in LambdaBodies}

\* interpolations of the string v, or of the one element of a
EscapedTemplates ==
    { Tag(<<"v">>), Tag(<<" ","v"," ">>),
      EachOf(<<"a">>, Tag(K_this)), EachOf(<<"a">>, Tag(<<".">>)),
      SectionOf(<<"a">>, Tag(<<".">>)) }

RawTemplates == { Triple(<<"v">>), Triple(<<" ","v"," ">>), Tag(<<"v","|","r","a","w">>) }

\* templates that raise in strict mode: a missing variable, an unregistered
\* helper, an unregistered partial
StrictInner == { Tag(<<"x">>), Tag(<<"v","|","h">>), PartialTag(<<"q">>) }

\* a template nested in a section block, in an each item or in the block of a
\* section whose value is a function
Nest(kind, inner) ==
    CASE kind = "section" -> SectionOf(<<"o">>, inner)
      [] kind = "each" -> EachOf(<<"a">>, inner)
      [] kind = "lambda" -> SectionOf(<<"w">>, inner)

NestKinds == {"section", "each", "lambda"}

NestedTemplates == {Nest(kind, inner) : kind \in NestKinds, inner \in StrictInner}

RenderTemplates ==
    EscapedTemplates \cup RawTemplates \cup StrictInner \cup NestedTemplates \cup {PartialTag(<<"p">>)}

RenderCtorArgs ==
    {[escapeHtml |-> e, strict |-> s, strictVariables |-> sv] :
        e \in BOOLEAN, s \in BOOLEAN, sv \in BOOLEAN}

MaxRenderSteps == 1

InitRender == \E given \in RenderCtorArgs : Constructor(given)

NextRender ==
    \/ \E template \in StrictInner :
            steps < MaxRenderSteps /\ RegisterPartial(<<"p">>, template)
    \/ \E template \in RenderTemplates, data \in RenderData : RenderCall(template, data)

SpecRender == InitRender /\ [][NextRender]_vars

\* the string s of a context built by DataFor
StringOf(data) == data.f[<<"v">>].s

\* C1 as claimed: under the default configuration a double-brace
\* interpolation of an unmarked string s yields escapeFn(s), at top level as
\* well as for {{this}} and {{.}} of an each block (or {{.}} of a section)
\* whose element is s; a value marked by raw, or escapeHtml = false, yields s
\* itself.
C1_DoubleBraceEscapes ==
    last.op = "render" =>
        /\ (options = DefaultOptions /\ last.tpl \in EscapedTemplates) =>
                last.res = Ok(escapeFn(options, StringOf(last.data)))
        /\ (~options.escapeHtml /\ last.tpl \in {Tag(<<"v">>), Tag(<<" ","v"," ">>)}) =>
                last.res = Ok(StringOf(last.data))
        /\ last.tpl = Tag(<<"v","|","r","a","w">>) => last.res = Ok(StringOf(last.data))

\* C2 as claimed: render("{{{v}}}", {v: s}) returns exactly s for every
\* string s and either value of escapeHtml.
C2_TripleBraceReturnsValue ==
    (last.op = "render" /\ last.tpl \in {Triple(<<"v">>), Triple(<<" ","v"," ">>)}) =>
        last.res = Ok(StringOf(last.data))

StrictErrors == {"UnknownHelper", "UnknownPartial", "UnknownVariable"}

\* C3 as claimed: a strict-mode error raised by a template nested in a
\* section block, in an each item, in the block a section function renders
\* through its callback or returns for re-rendering, or in a partial body, is
\* the outcome of the top-level render; an error thrown by the function's own
\* code yields empty output.
C3_StrictErrorsPropagate ==
    last.op = "render" =>
        /\ \A kind \in NestKinds, inner \in StrictInner :
                (/\ last.tpl = Nest(kind, inner)
                 /\ Render(inner, last.data, Env).err \in StrictErrors
                 /\ (kind = "lambda" => last.data.f[<<"w">>].body \in {"wrap", "echo"})) =>
                    last.res = Throw(Render(inner, last.data, Env).err)
        /\ (/\ last.tpl = PartialTag(<<"p">>)
            /\ <<"p">> \in DOMAIN partials
            /\ Render(partials[<<"p">>], last.data, Env).err \in StrictErrors) =>
                last.res = Throw(Render(partials[<<"p">>], last.data, Env).err)
        /\ \A inner \in StrictInner :
                (last.tpl = Nest("lambda", inner) /\ last.data.f[<<"w">>].body = "throw") =>
                    last.res = Ok(<<>>)

(***************************************************************************)
(* Partials: registerPartial, compile and the renderers compile returns    *)
(***************************************************************************)
N_p == <<"p">>

\* the texts registered under p
PartialTexts == {<<>>, <<"X">>, Tag(<<"v">>)}

\* the literal text before the {{> p}} tag of a template of the model: none
\* (the tag starts the line), or "a " (the tag follows other text)
PartialPrefixes == {<<>>, <<"a"," ">>}

PartialTemplates == {prefix \o PartialTag(N_p) : prefix \in PartialPrefixes}

PrefixOf(template) == CHOOSE prefix \in PartialPrefixes : template = prefix \o PartialTag(N_p)

PartialData == {DataFor(S_html, "wrap")}

PartialCtorArgs ==
    {[strict |-> s, cacheTemplates |-> c] : s \in BOOLEAN, c \in BOOLEAN}

MaxPartialSteps == 3

InitPartial == \E given \in PartialCtorArgs : Constructor(given)

NextPartial ==
    \/ \E template \in PartialTexts :
            steps < MaxPartialSteps /\ RegisterPartial(N_p, template)
    \/ \E template \in PartialTemplates :
            steps < MaxPartialSteps /\ Compile(template)
    \/ \E h \in 1..MaxPartialSteps, data \in PartialData : Invoke(h, data)
    \/ \E template \in PartialTemplates, data \in PartialData : RenderCall(template, data)

SpecPartial == InitPartial /\ [][NextPartial]_vars

\* the names registerPartial has been called with
RegisteredNames == {regLog[i].name : i \in 1..Len(regLog)}

\* the text of the most recent registerPartial call for a name
LatestRegistered(name) ==
    regLog[MaxOf({i \in 1..Len(regLog) : regLog[i].name = name})].tpl

\* the outcome of rendering a partial's text on its own against the context
BodyOutcome(text, data) == Render(text, data, [Env EXCEPT !.partials = <<>>])

\* C4 as claimed: every invocation of a renderer, cached or not and whenever
\* it was compiled, expands {{> p}} with the text most recently registered
\* under p: its output is the template's literal text followed by that text
\* rendered against the context.
C4_PartialsLateBound ==
    (last.op = "invoke" /\ last.tpl \in PartialTemplates /\ N_p \in RegisteredNames) =>
        LET body == BodyOutcome(LatestRegistered(N_p), last.data)
        IN  last.res = Ok(PrefixOf(last.tpl) \o body.out)

\* C10 as claimed: for a template with a {{> p}} tag, a strict render raises
\* UnknownPartial exactly when p has never been registered; a non-strict
\* render never raises, and an unregistered p contributes nothing.
C10_UnknownPartialIffUnregistered ==
    (last.op \in {"render", "invoke"} /\ last.tpl \in PartialTemplates) =>
        IF options.strict
        THEN last.res.err = "UnknownPartial" <=> N_p \notin RegisteredNames
        ELSE /\ last.res.err = ""
             /\ N_p \notin RegisteredNames => last.res = Ok(PrefixOf(last.tpl))

(***************************************************************************)
(* Partials: where the tag stands on its line, and indentation             *)
(***************************************************************************)
T_L1L2 == <<"L","1","\n","L","2">>

T_L1BlankL2 == <<"L","1","\n","\n","L","2">>

\* the (non-empty) texts registered under p: one line, two lines, one with
\* a blank line, one with a tag
IndentTexts == {<<"X">>, T_L1L2, T_L1BlankL2, Tag(<<"v">>) \o <<"\n","L","2">>}

\* white space before the tag
TagIndents == {<<" "," ">>, <<"\t">>}

\* what precedes the tag on its line: nothing, white space, literal text, a tag
TagPrefixes == {<<>>} \cup TagIndents \cup {<<"a"," ">>, Tag(<<"v">>)}

\* the lines before and after the tag's line
TagHeads == {<<>>, <<"A","\n">>}

TagTails == {<<>>, <<"\n","B">>}

\* a template whose partial tag follows pre on its line
Lined(head, pre, tail) == head \o pre \o PartialTag(N_p) \o tail

PositionTemplates ==
    {Lined(head, pre, tail) : head \in TagHeads, pre \in TagPrefixes, tail \in TagTails}

IndentCtorArgs == {[strict |-> s] : s \in BOOLEAN}

MaxIndentSteps == 2

InitIndent == \E given \in IndentCtorArgs : Constructor(given)

NextIndent ==
    \/ \E template \in IndentTexts :
            steps < MaxIndentSteps /\ RegisterPartial(N_p, template)
    \/ \E template \in PositionTemplates, data \in PartialData : RenderCall(template, data)

SpecIndent == InitIndent /\ [][NextIndent]_vars

\* a text without a line break
OneLine(s) == \A i \in 1..Len(s) : s[i] # "\n"

\* the lines of a rendered partial, every one prefixed with w
AllLinesPrefixed(w, out) ==
    JoinWith([i \in 1..Len(SplitLines(out)) |-> w \o SplitLines(out)[i]], <<"\n">>)

\* the lines of a rendered partial, the first and every non-empty one
\* prefixed with w
FilledLinesPrefixed(w, out) ==
    JoinWith([i \in 1..Len(SplitLines(out)) |->
                IF i = 1 \/ SplitLines(out)[i] # <<>> THEN w \o SplitLines(out)[i]
                ELSE <<>>], <<"\n">>)

\* C11 as claimed: a tag of a registered (one-line) partial is replaced by
\* the rendered partial wherever it stands on its line: the output is what
\* precedes the tag, rendered, then the rendered partial, then what follows.
C11_PartialAnywhereOnLine ==
    \A head \in TagHeads, pre \in TagPrefixes, tail \in TagTails :
        (/\ last.op = "render"
         /\ last.tpl = Lined(head, pre, tail)
         /\ N_p \in RegisteredNames
         /\ OneLine(LatestRegistered(N_p))) =>
            last.res = Ok(head \o Render(pre, last.data, Env).out
                               \o BodyOutcome(LatestRegistered(N_p), last.data).out \o tail)

T_else == OPEN \o W_else \o CLOSE

IfOf(path, block) == <<"{","{","#","i","f"," ">> \o path \o CLOSE \o block \o <<"{","{","/","i","f","}","}">>

UnlessOf(path, block) ==
    <<"{","{","#","u","n","l","e","s","s"," ">> \o path \o CLOSE \o block
        \o <<"{","{","/","u","n","l","e","s","s","}","}">>

InvertedOf(name, block) == <<"{","{","^">> \o name \o CLOSE \o block \o <<"{","{","/">> \o name \o CLOSE

\* the context { v: s, n: null, u: <function returning undefined> }; x is
\* not a key of it
ValueData(s) ==
    Obj([k \in {<<"v">>, <<"n">>, <<"u">>} |->
            CASE k = <<"v">> -> Str(s)
              [] k = <<"n">> -> Null
              [] k = <<"u">> -> Lambda("const", Undefined, <<>>, <<>>, <<>>)])

ValueDatas == {ValueData(s) : s \in RenderStrings}

\* h is not a registered helper
HelperTemplates ==
    { Tag(<<"v">>), Tag(<<"v","|","h">>), Tag(<<"v"," ","|"," ","h",":","1">>),
      Tag(<<"v","|","u","p","p","e","r">>), Tag(<<"v","|","h","|","u","p","p","e","r">>) }

\* interpolations whose value is undefined or null: a missing path, null, a
\* function that returns undefined, a missing path through an unregistered
\* helper
NullishTags == { Tag(<<"x">>), Tag(<<" ","x",".","y"," ">>), Tag(<<"n">>), Tag(<<"u">>) }

B_A == <<"A">>

B_B == <<"B">>

\* the other directives on the missing path x, with the output of each
MissingDirectives ==
    { [tpl |-> Triple(<<"x">>), out |-> <<>>],
      [tpl |-> IfOf(<<"x">>, B_A \o T_else \o B_B), out |-> B_B],
      [tpl |-> IfOf(<<"x">>, B_A), out |-> <<>>],
      [tpl |-> UnlessOf(<<"x">>, B_A \o T_else \o B_B), out |-> B_A],
      [tpl |-> EachOf(<<"x">>, B_A \o T_else \o B_B), out |-> B_B],
      [tpl |-> EachOf(<<"x">>, B_A), out |-> <<>>],
      [tpl |-> SectionOf(<<"x">>, B_A), out |-> <<>>],
      [tpl |-> InvertedOf(<<"x">>, B_A), out |-> B_A] }

ValueTemplates ==
    HelperTemplates \cup NullishTags \cup {d.tpl : d \in MissingDirectives}

InitValue == \E given \in RenderCtorArgs : Constructor(given)

NextValue == \E template \in ValueTemplates, data \in ValueDatas : RenderCall(template, data)

SpecValue == InitValue /\ [][NextValue]_vars

\* C13 as claimed: in non-strict mode render("{{v|h}}", {v: s}) returns s
\* unchanged for an unregistered helper h.
C13_UnknownHelperReturnsInput ==
    (/\ last.op = "render"
     /\ ~options.strict
     /\ last.tpl \in {Tag(<<"v","|","h">>), Tag(<<"v"," ","|"," ","h",":","1">>)}) =>
        last.res = Ok(StringOf(last.data))

\* C13, amended: in non-strict mode an unregistered helper passes its input
\* on: render("{{v|h}}", {v: s}) returns what render("{{v}}", {v: s})
\* returns, escapeFn(s) when escapeHtml is set and s otherwise, and the
\* filters after h still apply.
C13_UnknownHelperPassesThrough ==
    (last.op = "render" /\ ~options.strict) =>
        /\ last.tpl \in {Tag(<<"v","|","h">>), Tag(<<"v"," ","|"," ","h",":","1">>)} =>
                /\ last.res = Render(Tag(<<"v">>), last.data, Env)
                /\ last.res = Ok(IF options.escapeHtml
                                 THEN escapeFn(options, StringOf(last.data))
                                 ELSE StringOf(last.data))
        /\ last.tpl = Tag(<<"v","|","h","|","u","p","p","e","r">>) =>
                /\ last.res = Render(Tag(<<"v","|","u","p","p","e","r">>), last.data, Env)
                /\ last.res = Ok(IF options.escapeHtml
                                 THEN escapeFn(options, toUpperCase(StringOf(last.data)))
                                 ELSE toUpperCase(StringOf(last.data)))

\* C13 witness: a default engine has rendered {{v|h}} of "<b>" to the escaped text
C13_Witness ==
    /\ last.op = "render"
    /\ options = DefaultOptions
    /\ last.tpl = Tag(<<"v","|","h">>)
    /\ StringOf(last.data) = S_html
    /\ last.res = Ok(escapeHtml(S_html))
    /\ last.res # Ok(S_html)

LineComment(body) == <<"{","{","!">> \o body \o CLOSE

BlockComment(body) == <<"{","{","!","-","-">> \o body \o <<"-","-","}","}">>

\* bodies of {{! }} comments: no }
LineBodies == {<<>>, <<"c">>, <<" ","c"," ">>, <<" ","a",":","b"," ">>}

\* bodies of {{!-- --}} comments: plain, with a line break, with a single },
\* with }}
BlockBodies ==
    { <<" ","c"," ">>, <<" ","a","\n","b"," ">>, <<" ","a","}","b"," ">>,
      <<" ","a","}","}","b"," ">> }

CommentBefore == {<<>>, <<"A"," ">>}

CommentAfter == {<<>>, <<"B">>, <<" ","B">>}

CommentTemplates ==
    {pre \o LineComment(body) \o post :
        pre \in CommentBefore, body \in LineBodies, post \in CommentAfter}
    \cup {pre \o BlockComment(body) \o post :
        pre \in CommentBefore, body \in BlockBodies, post \in CommentAfter}

InitComment == \E given \in RenderCtorArgs : Constructor(given)

NextComment == \E template \in CommentTemplates, data \in PartialData : RenderCall(template, data)

SpecComment == InitComment /\ [][NextComment]_vars

\* C15 as claimed: every {{! }} span and every {{!-- --}} span, whatever
\* its body, is removed whole and the text around it is kept.
C15_CommentsRemovedWhole ==
    \A pre \in CommentBefore, post \in CommentAfter :
        last.op = "render" =>
            /\ \A body \in LineBodies :
                    last.tpl = pre \o LineComment(body) \o post => last.res = Ok(pre \o post)
            /\ \A body \in BlockBodies :
                    last.tpl = pre \o BlockComment(body) \o post => last.res = Ok(pre \o post)

(***************************************************************************)
(* each                                                                    *)
(***************************************************************************)
N_items == <<"i","t","e","m","s">>

\* [{{@index}}:{{@first}}:{{@last}}:{{this}}]
L_meta ==
    <<"[">> \o Tag(W_index) \o <<":">> \o Tag(W_first) \o <<":">> \o Tag(W_last)
        \o <<":">> \o Tag(K_this) \o <<"]">>

B_E == <<"E">>

EachTemplates ==
    { EachOf(N_items, L_meta \o T_else \o B_E), EachOf(N_items, L_meta),
      EachOf(N_items, Tag(K_this) \o <<",">> \o T_else \o B_E) }

\* the elements of the sequences: plain text, and text with the characters
\* $$ and $&
EachElements == {<<"a">>, <<"b">>, <<"$","$">>, <<"x","$","&">>}

MaxEachLen == 2

\* sequences of at most MaxEachLen elements
EachArrays ==
    UNION {[1..n -> {Str(e) : e \in EachElements}] : n \in 0..MaxEachLen}

\* what the path items resolves to: a sequence, text, a number, an object
EachValues ==
    {Arr(items) : items \in EachArrays}
        \cup {Str(<<"a","b">>), Num(2), Obj([k \in {<<"k">>} |-> Str(<<"a">>)])}

\* the contexts { items: value }, and one without items
EachDatas ==
    {Obj([k \in {N_items} |-> value]) : value \in EachValues}
        \cup {Obj([k \in {<<"v">>} |-> Str(<<"a">>)])}

EachCtorArgs == {[escapeHtml |-> e, strictVariables |-> sv] : e \in BOOLEAN, sv \in BOOLEAN}

InitEach == \E given \in EachCtorArgs : Constructor(given)

NextEach == \E template \in EachTemplates, data \in EachDatas : RenderCall(template, data)

SpecEach == InitEach /\ [][NextEach]_vars

\* the sequence at items, empty when items is missing or not a sequence
ItemsOf(data) ==
    IF N_items \in DOMAIN data.f /\ data.f[N_items].t = "array"
    THEN data.f[N_items].items ELSE <<>>

\* L_meta for the element at index i (from 0) of n
MetaExpected(items, i) ==
    <<"[">> \o NatToStr(i) \o <<":">> \o (IF i = 0 THEN T_true ELSE <<>>) \o <<":">>
        \o (IF i = Len(items) - 1 THEN T_true ELSE <<>>) \o <<":">> \o items[i + 1].s \o <<"]">>

\* C16 as claimed: {{#each items}}L{{else}}E{{/each}} is E (nothing without
\* {{else}}) for a missing path, a non-sequence and the empty sequence; for
\* n >= 1 elements it is the n renderings of L in element order, with
\* @index = i, @first and @last "true" at the first and last element and
\* empty elsewhere, and {{this}} the element.
C16_EachMetaAndElse ==
    last.op = "render" =>
        LET items == ItemsOf(last.data)
            metas == Concat([i \in 1..Len(items) |-> MetaExpected(items, i - 1)])
            plain == Concat([i \in 1..Len(items) |-> items[i].s \o <<",">>])
        IN  /\ last.tpl = EachOf(N_items, L_meta \o T_else \o B_E) =>
                    last.res = Ok(IF items = <<>> THEN B_E ELSE metas)
            /\ last.tpl = EachOf(N_items, L_meta) =>
                    last.res = Ok(IF items = <<>> THEN <<>> ELSE metas)
            /\ last.tpl = EachOf(N_items, Tag(K_this) \o <<",">> \o T_else \o B_E) =>
                    last.res = Ok(IF items = <<>> THEN B_E ELSE plain)

(***************************************************************************)
(* Sections and inverted sections                                          *)
(***************************************************************************)
N_k == <<"k">>

V_top == <<"t","o","p">>

V_in == <<"i","n">>

\* <{{.}}{{k}}> shows `this` and whether the fields of the value are overlaid
X_block == <<"<">> \o Tag(<<".">>) \o Tag(N_k) \o <<">">>

\* Y{{k}} shows the context the inverted block is rendered against
Y_block == <<"Y">> \o Tag(N_k)

\* the same blocks with the tags on lines of their own
OwnLines(block) == <<"\n">> \o block \o <<"\n">>

InlineTemplates == {SectionOf(N_items, X_block), InvertedOf(N_items, Y_block)}

OwnLineTemplates ==
    {SectionOf(N_items, OwnLines(X_block)), InvertedOf(N_items, OwnLines(Y_block))}

SectionTemplates == InlineTemplates \cup OwnLineTemplates

O_in == Obj([k \in {N_k} |-> Str(V_in)])

SectionElements == {Str(<<"a">>), Num(7), O_in}

MaxSectionLen == 2

SectionArrays == UNION {[1..n -> SectionElements] : n \in 0..MaxSectionLen}

\* what the name resolves to: sequences, truthy values, falsy values
SectionValues ==
    {Arr(items) : items \in SectionArrays}
        \cup {Str(<<"s">>), Num(1), Bool(TRUE), O_in}
        \cup {Str(<<>>), Num(0), Bool(FALSE), Null, Undefined}

\* the contexts { items: value, k: "top" }, and { k: "top" }
SectionDatas ==
    {Obj([k \in {N_items, N_k} |-> IF k = N_k THEN Str(V_top) ELSE value]) : value \in SectionValues}
        \cup {Obj([k \in {N_k} |-> Str(V_top)])}

InitSection == \E given \in EachCtorArgs : Constructor(given)

NextSection == \E template \in SectionTemplates, data \in SectionDatas : RenderCall(template, data)

SpecSection == InitSection /\ [][NextSection]_vars

\* the value at the name, undefined when it is missing
NamedValue(data) == IF N_items \in DOMAIN data.f THEN data.f[N_items] ELSE Undefined

\* the elements the section block is rendered for: those of a sequence, the
\* value itself when it is another truthy value, none when it is falsy
BlockSubjects(v) ==
    IF v.t = "array" THEN v.items
    ELSE IF Truthy(v) THEN <<v>>
    ELSE <<>>

\* X_block for one subject: `this` is the subject, and k is its own field
\* when it is associative and the context's k otherwise
BlockFor(e) ==
    <<"<">> \o ToStr(e) \o (IF e.t = "object" THEN e.f[N_k].s ELSE V_top) \o <<">">>

\* the section and the inverted section written inline behave as C17 says:
\* the block once per subject with `this` and the overlay, the inverted block
\* once against the unchanged context exactly when there is no subject
InlineSectionAndInverted ==
    (last.op = "render" /\ last.tpl \in InlineTemplates) =>
        LET subjects == BlockSubjects(NamedValue(last.data))
        IN  /\ last.tpl = SectionOf(N_items, X_block) =>
                    last.res = Ok(Concat([i \in 1..Len(subjects) |-> BlockFor(subjects[i])]))
            /\ last.tpl = InvertedOf(N_items, Y_block) =>
                    last.res = Ok(IF subjects = <<>> THEN <<"Y">> \o V_top ELSE <<>>)

\* a section whose value has no subject, and an inverted section whose value
\* has one, render nothing, however the block is laid out
NoRenderingIsEmpty ==
    (last.op = "render" /\ last.tpl \in OwnLineTemplates) =>
        LET subjects == BlockSubjects(NamedValue(last.data))
        IN  /\ (last.tpl = SectionOf(N_items, OwnLines(X_block)) /\ subjects = <<>>) =>
                    last.res = Ok(<<>>)
            /\ (last.tpl = InvertedOf(N_items, OwnLines(Y_block)) /\ subjects # <<>>) =>
                    last.res = Ok(<<>>)

\* C17: for a value that is not a function, the section renders its block
\* once per element of a sequence, in order, once for another truthy value
\* and not at all for a falsy or missing one, each time with `this` the
\* subject and an associative subject's fields overlaid; the inverted section
\* renders its block once, against the unchanged context, exactly when the
\* section renders its block zero times, and nothing otherwise.
C17_SectionAndInverted == InlineSectionAndInverted /\ NoRenderingIsEmpty

\* a section written on one line has rendered its block for a text element and for
\* an associative element of one sequence
InlineSectionRendered ==
    /\ last.op = "render"
    /\ last.tpl = SectionOf(N_items, X_block)
    /\ NamedValue(last.data) = Arr(<<Str(<<"a">>), O_in>>)
    /\ last.res = Ok(<<"<","a">> \o V_top \o <<">","<">> \o T_objectObject \o V_in \o <<">">>)

(***************************************************************************)
(* if / unless                                                             *)
(***************************************************************************)
N_cond == <<"p">>

N_q == <<"q">>

\* a block that holds an if of its own: {{#if q}}X{{/if}}
B_nested == IfOf(N_q, <<"X">>)

CondBlocks == {B_A, Tag(N_k), B_nested}

\* the second branch; none stands for a directive without {{else}}
ElseBlocks == {B_B, Tag(N_k)}

WithElse(a, b) == a \o T_else \o b

\* each directive written on one line, with the branches it was built from
InlineConds ==
    {[kind |-> "if", tpl |-> IfOf(N_cond, WithElse(a, b)), a |-> a, b |-> b] :
            a \in CondBlocks, b \in ElseBlocks}
        \cup {[kind |-> "if", tpl |-> IfOf(N_cond, a), a |-> a, b |-> <<>>] : a \in CondBlocks}
        \cup {[kind |-> "unless", tpl |-> UnlessOf(N_cond, WithElse(a, b)), a |-> a, b |-> b] :
            a \in CondBlocks, b \in ElseBlocks}
        \cup {[kind |-> "unless", tpl |-> UnlessOf(N_cond, a), a |-> a, b |-> <<>>] : a \in CondBlocks}

\* the blocks A and B with every tag on a line of its own
OwnLineBranches == <<"\n">> \o B_A \o <<"\n">> \o T_else \o <<"\n">> \o B_B \o <<"\n">>

OwnLineConds ==
    {[kind |-> "if", tpl |-> IfOf(N_cond, OwnLineBranches)],
     [kind |-> "unless", tpl |-> UnlessOf(N_cond, OwnLineBranches)]}

CondTemplates == {c.tpl : c \in InlineConds} \cup {c.tpl : c \in OwnLineConds}

CondValues ==
    {Bool(TRUE), Str(<<"s">>), Num(1), O_in, Arr(<<>>), Arr(<<Str(<<"a">>)>>),
     Lambda("const", Undefined, <<>>, <<>>, <<>>)}
        \cup {Bool(FALSE), Str(<<>>), Num(0), Null, Undefined}

\* the contexts { p: value, q: true, k: "top" }, and the one without p
CondDatas ==
    {Obj([k \in {N_cond, N_q, N_k} |->
            CASE k = N_cond -> value
              [] k = N_q -> Bool(TRUE)
              [] k = N_k -> Str(V_top)]) : value \in CondValues}
        \cup {Obj([k \in {N_q, N_k} |-> IF k = N_q THEN Bool(TRUE) ELSE Str(V_top)])}

InitCond == \E given \in EachCtorArgs : Constructor(given)

NextCond == \E template \in CondTemplates, data \in CondDatas : RenderCall(template, data)

SpecCond == InitCond /\ [][NextCond]_vars

CondValue(data) == IF N_cond \in DOMAIN data.f THEN data.f[N_cond] ELSE Undefined

\* the branch the directive is to emit for the value
Chosen(c, v) == IF Truthy(v) = (c.kind = "if") THEN c.a ELSE c.b

HasChar(s, ch) == \E i \in 1..Len(s) : s[i] = ch

\* a directive written on one line yields its chosen branch, and an unless
\* yields what the if with the branches exchanged yields
InlineBranchChosen ==
    last.op = "render" =>
        \A c \in InlineConds : last.tpl = c.tpl =>
            /\ last.res = Render(Chosen(c, CondValue(last.data)), last.data, Env)
            /\ c.kind = "unless" =>
                    last.res = Render(IfOf(N_cond, WithElse(c.b, c.a)), last.data, Env)

\* with the tags on lines of their own, the output still holds exactly the
\* branch chosen for the value
OwnLineBranchChosen ==
    last.op = "render" =>
        \A c \in OwnLineConds : last.tpl = c.tpl =>
            /\ last.res.err = ""
            /\ HasChar(last.res.out, "A") = (Truthy(CondValue(last.data)) = (c.kind = "if"))
            /\ HasChar(last.res.out, "B") = ~HasChar(last.res.out, "A")

\* C18: for every value at p and all blocks A and B, the if directive yields
\* A when the value is truthy and B (empty without an else) when it is falsy
\* or missing, and the unless directive yields what the if directive with the
\* branches exchanged yields, so exactly one branch of each is emitted.
C18_IfUnlessOneBranch == InlineBranchChosen /\ OwnLineBranchChosen

\* the same directives with blocks that hold no if of their own
FlatBranchChosen ==
    last.op = "render" =>
        \A c \in InlineConds : (last.tpl = c.tpl /\ c.a # B_nested) =>
            /\ last.res = Render(Chosen(c, CondValue(last.data)), last.data, Env)
            /\ c.kind = "unless" =>
                    last.res = Render(IfOf(N_cond, WithElse(c.b, c.a)), last.data, Env)

(***************************************************************************)
(* Lines that hold one tag only                                            *)
(***************************************************************************)
N_ok == <<"o","k">>

N_no == <<"n","o">>

V_val == <<"v","a","l">>

\* the opener and the closer of each kind of block; with OwnLineData every
\* one of them renders its block once
OwnLinePairs ==
    {<<Tag(<<"#">> \o N_ok), Tag(<<"/">> \o N_ok)>>,
     <<Tag(<<"^">> \o N_no), Tag(<<"/">> \o N_no)>>,
     <<Tag(<<"#","i","f"," ","o","k">>), Tag(<<"/","i","f">>)>>,
     <<Tag(<<"#","e","a","c","h"," ","i","t","e","m","s">>), Tag(<<"/","e","a","c","h">>)>>}

OwnLineComments == {LineComment(<<" ","c"," ">>), BlockComment(<<" ","c"," ">>)}

LineIndents == {<<>>, <<" "," ">>}

\* the groups of lines under test: what the template holds, and the lines
\* that are to stay of it
OwnLineUnits ==
    {[lines |-> <<w \o c>>, kept |-> <<>>] : w \in LineIndents, c \in OwnLineComments}
        \cup {[lines |-> <<w \o PartialTag(N_p)>>, kept |-> <<>>] : w \in LineIndents}
        \cup {[lines |-> <<w \o pr[1], <<"Y">>, w \o pr[2]>>, kept |-> <<(<<"Y">>)>>] :
                w \in LineIndents, pr \in OwnLinePairs}
        \cup {[lines |-> <<pr[1], pr[2]>>, kept |-> <<>>] : pr \in OwnLinePairs}
        \cup {[lines |-> <<c, pr[1], <<"Y">>, pr[2]>>, kept |-> <<(<<"Y">>)>>] :
                c \in OwnLineComments, pr \in OwnLinePairs}
        \cup {[lines |-> <<w \o Tag(<<"v">>)>>, kept |-> <<w \o V_val>>] : w \in LineIndents}

LinesBefore == {<<>>, <<(<<"A">>)>>}

LinesAfter == {<<>>, <<(<<"B">>)>>}

\* the text of the lines, each with its line break
TextOfLines(lines) == Concat([i \in 1..Len(lines) |-> lines[i] \o <<"\n">>])

OwnLineCases ==
    {[tpl |-> TextOfLines(h \o u.lines \o tl), out |-> TextOfLines(h \o u.kept \o tl)] :
        h \in LinesBefore, u \in OwnLineUnits, tl \in LinesAfter}

\* { ok: true, no: false, items: ["a"], v: "val" }
OwnLineData ==
    Obj([k \in {N_ok, N_no, N_items, <<"v">>} |->
            CASE k = N_ok -> Bool(TRUE)
              [] k = N_no -> Bool(FALSE)
              [] k = N_items -> Arr(<<Str(<<"a">>)>>)
              [] k = <<"v">> -> Str(V_val)])

InitOwnLine == \E given \in EachCtorArgs : Constructor(given)

NextOwnLine == \E c \in OwnLineCases : RenderCall(c.tpl, OwnLineData)

SpecOwnLine == InitOwnLine /\ [][NextOwnLine]_vars

\* C19: a line that holds only blanks and one structural tag (a comment, a
\* partial, the opener or closer of a section, if or each) adds nothing to
\* the output, its line break included, also when such lines follow one
\* another, and a line that holds only an interpolation keeps its blanks and
\* its line break.
C19_OwnLineTagsVanish ==
    last.op = "render" =>
        \A c \in OwnLineCases : last.tpl = c.tpl => last.res = Ok(c.out)

\* the part of C19 about one opener or closer between lines of text, and
\* about interpolations
SingleBlockLinesVanish ==
    last.op = "render" =>
        \A h \in LinesBefore, tl \in LinesAfter, w \in LineIndents :
            /\ \A pr \in OwnLinePairs :
                    last.tpl = TextOfLines(h \o <<w \o pr[1], <<"Y">>, w \o pr[2]>> \o tl)
                        => last.res = Ok(TextOfLines(h \o <<(<<"Y">>)>> \o tl))
            /\ last.tpl = TextOfLines(h \o <<w \o Tag(<<"v">>)>> \o tl)
                    => last.res = Ok(TextOfLines(h \o <<w \o V_val>> \o tl))

(***************************************************************************)
(* The deny-list of path resolution                                        *)
(***************************************************************************)
\* a call of getValueByPath on its own, recorded with what it returned
Resolve(obj, path) ==
    /\ last.op = "new"
    /\ last' = [op |-> "getValueByPath", obj |-> obj, path |-> path,
                res |-> getValueByPath(obj, path)]
    /\ UNCHANGED <<options, tplCache, partials, nextId, held, gone, regLog, steps>>

DangerousNames == {D_proto, D_prototype, D_constructor}

PathSegments == DangerousNames \cup {<<"a">>, <<"b">>, <<"0">>}

MaxPathDepth == 3

PathSegmentLists == UNION {[1..n -> PathSegments] : n \in 1..MaxPathDepth}

\* { b: "B", constructor: "deep", __proto__: "up" }
O_deep ==
    Obj([k \in {<<"b">>, D_constructor, D_proto} |->
            CASE k = <<"b">> -> Str(<<"B">>)
              [] k = D_constructor -> Str(<<"d","e","e","p">>)
              [] k = D_proto -> Str(<<"u","p">>)])

\* { a: O_deep, __proto__: { a: "PA" }, prototype: "P",
\*   constructor: { prototype: "CP", a: O_deep } }
O_owned ==
    Obj([k \in {<<"a">>, D_proto, D_prototype, D_constructor} |->
            CASE k = <<"a">> -> O_deep
              [] k = D_proto -> Obj([j \in {<<"a">>} |-> Str(<<"P","A">>)])
              [] k = D_prototype -> Str(<<"P">>)
              [] k = D_constructor ->
                    Obj([j \in {D_prototype, <<"a">>} |->
                            IF j = <<"a">> THEN O_deep ELSE Str(<<"C","P">>)])])

PathContexts ==
    {Null, Undefined, Str(<<"s">>), Str(<<>>), Num(0), Num(1), Bool(TRUE), Bool(FALSE),
     Obj(<<>>), O_deep, O_owned, Arr(<<O_owned>>),
     Lambda("const", Undefined, <<>>, <<>>, <<>>)}

InitPath == \E given \in {[escapeHtml |-> TRUE]} : Constructor(given)

NextPath ==
    \E obj \in PathContexts, segs \in PathSegmentLists : Resolve(obj, JoinWith(segs, <<".">>))

SpecPath == InitPath /\ [][NextPath]_vars

\* the accumulator after the first n segments of the path
AccAfter(obj, segs, n) ==
    IF n = 0 THEN obj ELSE getValueByPath(obj, JoinWith(SubSeq(segs, 1, n), <<".">>))

\* C20: against every context, a dotted path with a segment __proto__,
\* prototype or constructor at any depth resolves to undefined (a value, so
\* nothing is raised), and so does a path with a segment that is not an own
\* property of the accumulator it is looked up in.
C20_DenyListAndOwnOnly ==
    last.op = "getValueByPath" =>
        \A segs \in PathSegmentLists : last.path = JoinWith(segs, <<".">>) =>
            /\ (\E i \in 1..Len(segs) : segs[i] \in DangerousNames) => last.res = Undefined
            /\ (\E i \in 1..Len(segs) :
                    ~(IsObjectLike(AccAfter(last.obj, segs, i - 1))
                        /\ HasOwn(AccAfter(last.obj, segs, i - 1), segs[i])))
                    => last.res = Undefined

\* C20 witness: constructor.prototype was resolved against a context that
\* has both as own properties, and undefined came back
C20_Witness ==
    /\ last.op = "getValueByPath"
    /\ last.obj = O_owned
    /\ last.path = D_constructor \o <<".">> \o D_prototype
    /\ last.res = Undefined

\* paths of own, permitted names do resolve: a.b of O_owned is "B"
OwnPathResolves ==
    /\ last.op = "getValueByPath"
    /\ last.obj = O_owned
    /\ last.path = <<"a",".","b">>
    /\ last.res = Str(<<"B">>)

(***************************************************************************)
(* if / unless inside an each body                                         *)
(***************************************************************************)
N_first == <<"@","f","i","r","s","t">>

\* the conditions written inside the loop: a field of the enclosing context,
\* and two that read as if they were about the current element
LoopConditions == {N_cond, N_first, K_this}

LoopBranches == {B_A, WithElse(B_A, B_B)}

\* {{#each items}}{{#if c}}A{{else}}B{{/if}}{{/each}} and its variants, with
\* what each was built from
LoopConds ==
    {[kind |-> "if", cond |-> c, tpl |-> EachOf(N_items, IfOf(c, x)),
      a |-> B_A, b |-> IF x = B_A THEN <<>> ELSE B_B] : c \in LoopConditions, x \in LoopBranches}
        \cup {[kind |-> "unless", cond |-> c, tpl |-> EachOf(N_items, UnlessOf(c, x)),
               a |-> B_A, b |-> IF x = B_A THEN <<>> ELSE B_B] :
                    c \in LoopConditions, x \in LoopBranches}

\* an if on the current element inside an if on the enclosing context
T_loopNested == EachOf(N_items, IfOf(N_cond, IfOf(K_this, <<"Y">>)))

LoopTemplates == {c.tpl : c \in LoopConds} \cup {T_loopNested}

LoopElements == {Str(<<>>), Str(<<"a">>)}

MaxLoopLen == 2

LoopArrays == UNION {[1..n -> LoopElements] : n \in 0..MaxLoopLen}

\* the contexts { items: [...], p: true | false }, and the ones without p
LoopDatas ==
    {Obj([k \in {N_items, N_cond} |-> IF k = N_items THEN Arr(items) ELSE Bool(b)]) :
            items \in LoopArrays, b \in BOOLEAN}
        \cup {Obj([k \in {N_items} |-> Arr(items)]) : items \in LoopArrays}

InitLoop == \E given \in EachCtorArgs : Constructor(given)

NextLoop == \E template \in LoopTemplates, data \in LoopDatas : RenderCall(template, data)

SpecLoop == InitLoop /\ [][NextLoop]_vars

\* n copies of a text
RECURSIVE Repeat(_, _)
Repeat(s, n) == IF n = 0 THEN <<>> ELSE s \o Repeat(s, n - 1)

\* a condition inside the loop is decided once, against the enclosing
\* context: every element gets the branch that context chooses
DecidedOnceOutside ==
    last.op = "render" =>
        \A c \in LoopConds : last.tpl = c.tpl =>
            last.res = Ok(Repeat(IF Truthy(getValueByPath(last.data, c.cond)) = (c.kind = "if")
                                 THEN c.a ELSE c.b,
                                 Len(last.data.f[N_items].items)))

\* the if on `this` inside another if gives every element the same branch
NestedSameForAll ==
    (last.op = "render" /\ last.tpl = T_loopNested) =>
        \/ last.res = Ok(<<>>)
        \/ last.res = Ok(Repeat(<<"Y">>, Len(last.data.f[N_items].items)))

\* C21: the if and unless passes run over the whole text before the each
\* pass, so an if or unless written inside an each body is decided exactly
\* once, against the enclosing context and before the iteration: its chosen
\* branch is the same for every element, and a condition such as @first or
\* this is resolved against the enclosing context, not the current element.
C21_LoopConditionDecidedOnce == DecidedOnceOutside /\ NestedSameForAll

\* an each over two elements has given both the branch the enclosing context
\* chose, for a condition on @first
LoopFirstDecidedOutside ==
    /\ last.op = "render"
    /\ last.tpl = EachOf(N_items, IfOf(N_first, WithElse(B_A, B_B)))
    /\ Len(last.data.f[N_items].items) = 2
    /\ last.res = Ok(<<"B","B">>)

(***************************************************************************)
(* Text that comes from the data                                           *)
(***************************************************************************)
N_v == <<"v">>

N_x == <<"x">>

\* the texts the data holds: plain text, an interpolation of x, an if on x
DataTexts == {S_plain, S_tag, IfOf(N_x, <<"T">>)}

XValues == {Str(<<"1">>), Str(<<"2">>)}

\* { v: s, items: [s], ok: true, x: u }
DataWith(s, u) ==
    Obj([k \in {N_v, N_items, N_ok, N_x} |->
            CASE k = N_v -> Str(s)
              [] k = N_items -> Arr(<<Str(s)>>)
              [] k = N_ok -> Bool(TRUE)
              [] k = N_x -> u])

TextDatas == {DataWith(s, u) : s \in DataTexts, u \in XValues}

\* the body registered for the partial p
T_partialBody == Triple(N_v)

\* every way the text s of the data can enter the output; none names x
TextTemplates ==
    {Tag(N_v), Triple(N_v),
     EachOf(N_items, Tag(K_this)), EachOf(N_items, Tag(<<".">>)),
     SectionOf(N_ok, Triple(N_v)), SectionOf(N_ok, Tag(N_v)),
     PartialTag(N_p)}

MaxTextSteps == 1

InitText == \E given \in EachCtorArgs : Constructor(given)

NextText ==
    \/ steps < MaxTextSteps /\ RegisterPartial(N_p, T_partialBody)
    \/ \E template \in TextTemplates, data \in TextDatas : RenderCall(template, data)

SpecText == InitText /\ [][NextText]_vars

\* the same context with the other value in the field x
OtherX(data) ==
    Obj([data.f EXCEPT ![N_x] = IF @ = Str(<<"1">>) THEN Str(<<"2">>) ELSE Str(<<"1">>)])

\* the render under test has put the text of the data into the output
TextEntered ==
    /\ last.op = "render"
    /\ last.tpl = PartialTag(N_p) => regLog # <<>>

\* the text of the data is in the output as it is in the data
TextIsFinal == TextEntered => last.res = Ok(last.data.f[N_v].s)

\* the output does not depend on x, a field no directive of the template names
UnnamedFieldIgnored == TextEntered => last.res = Render(last.tpl, OtherX(last.data), Env)

\* C22: text that enters the output from a context value, through {{ }},
\* {{{ }}}, the {{this}} or {{.}} of each, or the nested render of a partial
\* body, a section block or an each item, is final: no later pass of the
\* same or of an enclosing render resolves a directive in it, so two renders
\* whose contexts differ only in a field no directive of the template names
\* give the same output.
C22_DataNeverTemplate == TextIsFinal /\ UnnamedFieldIgnored

\* the same for data whose text holds no tag
PlainTextIsFinal ==
    (TextEntered /\ last.data.f[N_v].s = S_plain) =>
        /\ last.res = Ok(S_plain)
        /\ last.res = Render(last.tpl, OtherX(last.data), Env)

\* a top-level {{v}} is the last pass of its render: its text stays
TopLevelVarIsFinal ==
    (TextEntered /\ last.tpl = Tag(N_v)) =>
        /\ last.res = Ok(last.data.f[N_v].s)
        /\ last.res = Render(last.tpl, OtherX(last.data), Env)

====
